---- MODULE Spec2Model ----
(***************************************************************************)
(* A model of the continuous collision engine of collider-rs: the event    *)
(* queue (core/events.rs), the sparse grid (core/grid.rs), the rect/rect   *)
(* solvers (core/dur_hitbox/solvers.rs) and the orchestrator               *)
(* (core/collider.rs).                                                     *)
(*                                                                         *)
(* f64 values are modelled as exact rationals <<n, d>> in lowest terms     *)
(* with d > 0, extended with <<1, 0>> (+inf), <<-1, 0>> (-inf) and         *)
(* <<0, 0>> (NaN), so that sums, products, quotients and comparisons are   *)
(* computed, not assumed.  The results of the arithmetic are exact where   *)
(* mantissa is 0 and rounded to the nearest value with a significand of    *)
(* mantissa bits, ties to even, where it is above 0: f64 has 53 of them.   *)
(***************************************************************************)
EXTENDS Integers, Sequences, FiniteSets, TLC

\* ------------------------------------------------------------------ f64 --

\* a `let` binding, Let([x \in {v} |-> e]): e with x bound to the value v
Let(f) == f[CHOOSE v \in DOMAIN f : TRUE]

AbsInt(n) == IF n < 0 THEN -n ELSE n

SignInt(n) == IF n < 0 THEN -1 ELSE IF n > 0 THEN 1 ELSE 0

RECURSIVE Gcd(_, _)
Gcd(a, b) == IF b = 0 THEN a ELSE Gcd(b, a % b)

\* the bits of the significand the arithmetic rounds to, 0 for none
VARIABLE mantissa

RECURSIVE Pow2(_)
Pow2(e) == IF e = 0 THEN 1 ELSE 2 * Pow2(e - 1)

\* the exact rational n / d in lowest terms
Exact(n, d) ==
    IF d = 0 THEN <<SignInt(n), 0>>
    ELSE Let([g \in {Gcd(AbsInt(n), AbsInt(d))} |-> <<(SignInt(d) * n) \div g, (SignInt(d) * d) \div g>>])

\* n / d * 2^e with n, d > 0, rounded to a significand of mantissa bits
RECURSIVE Nearest(_, _, _)
Nearest(n, d, e) ==
    IF n >= d * Pow2(mantissa) THEN Nearest(n, 2 * d, e + 1)
    ELSE IF n < d * Pow2(mantissa - 1) THEN Nearest(2 * n, d, e - 1)
    ELSE Let([q \in {n \div d} |->
         Let([up \in {2 * (n % d) > d \/ (2 * (n % d) = d /\ q % 2 = 1)} |->
         Let([r \in {IF up THEN q + 1 ELSE q} |->
         IF e >= 0 THEN Exact(r * Pow2(e), 1) ELSE Exact(r, Pow2(-e))])])])

\* the f64 nearest to n / d
F(n, d) ==
    IF d = 0 \/ n = 0 \/ mantissa = 0 THEN Exact(n, d)
    ELSE Let([x \in {Nearest(AbsInt(n), AbsInt(d), 0)} |->
         <<SignInt(n) * SignInt(d) * x[1], x[2]>>])

I(n) == <<n, 1>>

INFINITY == <<1, 0>>

IsNaN(a) == a = <<0, 0>>

IsInf(a) == a[2] = 0 /\ a[1] # 0

FNeg(a) == <<-a[1], a[2]>>

FAdd(a, b) ==
    IF IsNaN(a) \/ IsNaN(b) THEN <<0, 0>>
    ELSE IF IsInf(a) /\ IsInf(b) THEN (IF a = b THEN a ELSE <<0, 0>>)
    ELSE IF IsInf(a) THEN a
    ELSE IF IsInf(b) THEN b
    ELSE F(a[1] * b[2] + b[1] * a[2], a[2] * b[2])

FSub(a, b) == FAdd(a, FNeg(b))

FMul(a, b) ==
    IF a[2] = 0 \/ b[2] = 0 THEN <<SignInt(a[1]) * SignInt(b[1]), 0>>
    ELSE F(a[1] * b[1], a[2] * b[2])

FDiv(a, b) ==
    IF IsNaN(a) \/ IsNaN(b) THEN <<0, 0>>
    ELSE IF b[2] = 0 THEN (IF a[2] = 0 THEN <<0, 0>> ELSE <<0, 1>>)
    ELSE IF a[2] = 0 THEN <<a[1] * (IF b[1] < 0 THEN -1 ELSE 1), 0>>
    ELSE F(a[1] * b[2], a[2] * b[1])

FLt(a, b) ==
    /\ ~IsNaN(a)
    /\ ~IsNaN(b)
    /\ IF a[2] = 0 /\ b[2] = 0 THEN a[1] < b[1] ELSE a[1] * b[2] < b[1] * a[2]

FEq(a, b) == ~IsNaN(a) /\ ~IsNaN(b) /\ a = b

FLe(a, b) == FLt(a, b) \/ FEq(a, b)

FGt(a, b) == FLt(b, a)

FGe(a, b) == FLe(b, a)

\* f64::min / f64::max: the other operand when one is NaN
FMin(a, b) == IF IsNaN(a) THEN b ELSE IF IsNaN(b) THEN a ELSE IF FLt(b, a) THEN b ELSE a

FMax(a, b) == IF IsNaN(a) THEN b ELSE IF IsNaN(b) THEN a ELSE IF FLt(a, b) THEN b ELSE a

FAbs(a) == <<AbsInt(a[1]), a[2]>>

\* f64::floor / f64::ceil followed by `as i32`, for finite values
FloorI32(a) == a[1] \div a[2]

CeilI32(a) == -((-a[1]) \div a[2])

Zero == I(0)

Half == F(1, 2)

\* ------------------------------------------------------------- geometry --

v2(x, y) == [x |-> x, y |-> y]

VecZero == v2(Zero, Zero)

VecAdd(a, b) == v2(FAdd(a.x, b.x), FAdd(a.y, b.y))

VecNeg(a) == v2(FNeg(a.x), FNeg(a.y))

VecScale(a, k) == v2(FMul(a.x, k), FMul(a.y, k))

Shape(kind, dims) == [kind |-> kind, dims |-> dims]

PlacedShape(pos, shape) == [pos |-> pos, shape |-> shape]

CardValues == <<"MinusX", "MinusY", "PlusX", "PlusY">>

flip(card) ==
    CASE card = "MinusX" -> "PlusX"
      [] card = "PlusX" -> "MinusX"
      [] card = "MinusY" -> "PlusY"
      [] card = "PlusY" -> "MinusY"

\* PlacedBounds over a centre and dims (a PlacedShape, or a velocity whose
\* centre is vel.value and whose dims are vel.resize)
min_x(c, d) == FSub(c.x, FMul(d.x, Half))

min_y(c, d) == FSub(c.y, FMul(d.y, Half))

max_x(c, d) == FAdd(c.x, FMul(d.x, Half))

max_y(c, d) == FAdd(c.y, FMul(d.y, Half))

edge(c, d, card) ==
    CASE card = "MinusX" -> FNeg(min_x(c, d))
      [] card = "MinusY" -> FNeg(min_y(c, d))
      [] card = "PlusX" -> max_x(c, d)
      [] card = "PlusY" -> max_y(c, d)

\* self.card_overlap(src, card), self and src given as (centre, dims)
card_overlap(sc, sd, oc, od, card) == FAdd(edge(oc, od, card), edge(sc, sd, flip(card)))

RECURSIVE MaxOverCards(_, _, _)
MaxOverCards(c, d, i) ==
    IF i = Len(CardValues) THEN FAbs(edge(c, d, CardValues[i]))
    ELSE FMax(FAbs(edge(c, d, CardValues[i])), MaxOverCards(c, d, i + 1))

max_edge(c, d) == MaxOverCards(c, d, 1)

RECURSIVE MinCardOverlap(_, _, _)
MinCardOverlap(dst, src, i) ==
    Let([o \in {card_overlap(dst.pos, dst.shape.dims, src.pos, src.shape.dims, CardValues[i])} |-> IF i = Len(CardValues) THEN o
                   ELSE FMin(o, MinCardOverlap(dst, src, i + 1))])

\* rect_rect_normal(dst, src).len(): the least cardinal overlap
rect_rect_normal_len(dst, src) == MinCardOverlap(dst, src, 1)

\* PlacedShape::overlaps, for the rect/rect pairs the model draws
overlaps(self, other) == FGe(rect_rect_normal_len(self, other), Zero)

as_rect(s) == PlacedShape(s.pos, Shape("Rect", s.shape.dims))

bounding_box(self, other) ==
    Let([right \in {FMax(max_x(self.pos, self.shape.dims), max_x(other.pos, other.shape.dims))} |->
    Let([top \in {FMax(max_y(self.pos, self.shape.dims), max_y(other.pos, other.shape.dims))} |->
    Let([left \in {FMin(min_x(self.pos, self.shape.dims), min_x(other.pos, other.shape.dims))} |->
    Let([bottom \in {FMin(min_y(self.pos, self.shape.dims), min_y(other.pos, other.shape.dims))} |->
    Let([dims \in {v2(FSub(right, left), FSub(top, bottom))} |->
    PlacedShape(v2(FAdd(left, FMul(dims.x, Half)), FAdd(bottom, FMul(dims.y, Half))),
                Shape("Rect", dims))])])])])])

\* PlacedShape::advance(vel, resize, time)
advance(s, vel, resize, t) ==
    PlacedShape(VecAdd(s.pos, VecScale(vel, t)),
                Shape(s.shape.kind, VecAdd(s.shape.dims, VecScale(resize, t))))

\* ----------------------------------------------------------- constants --

\* core::HIGH_TIME is 1e50 in the source.  TLC integers are 32 bits wide, so
\* the model uses a value that exceeds every finite time it can reach
\* (MaxTime plus one cell period) and keeps every comparison against it.
HIGH_TIME == 100000

HighTime == I(HIGH_TIME)

\* Collider::new(cell_width, padding): the values of the repository's tests,
\* Collider::new(4.0, 0.25)
CellWidth == 4

cell_width == I(CellWidth)

padding == F(1, 4)

\* -------------------------------------------------------------- hitboxes --

HbVel(value, resize, end_time) == [value |-> value, resize |-> resize, end_time |-> end_time]

Hitbox(value, vel) == [value |-> value, vel |-> vel]

DurHbVel(value, resize, duration) == [value |-> value, resize |-> resize, duration |-> duration]

DurHitbox(value, vel) == [value |-> value, vel |-> vel]

\* Hitbox::advanced_shape(time) / DurHitbox::advanced_shape(time)
advanced_shape(hb, t) == advance(hb.value, hb.vel.value, hb.vel.resize, t)

\* Hitbox::to_dur_hitbox(time): duration = end_time - time
to_dur_hitbox(hb, t) ==
    DurHitbox(hb.value, DurHbVel(hb.vel.value, hb.vel.resize, FSub(hb.vel.end_time, t)))

\* Hitbox::validate(min_size, present_time); TRUE when no assertion fails
validate(hb, min_size, present_time) ==
    /\ ~IsNaN(hb.vel.end_time)
    /\ FGe(hb.vel.end_time, present_time)
    /\ FGe(hb.value.shape.dims.x, min_size)
    /\ FGe(hb.value.shape.dims.y, min_size)
    /\ (hb.value.shape.kind = "Circle" => hb.vel.resize.x = hb.vel.resize.y)

\* Hitbox::time_until_too_small(min_size); its assertion is TooSmallOk
TooSmallOk(hb, min_size) ==
    Let([m \in {FMul(min_size, F(9, 10))} |-> FGt(hb.value.shape.dims.x, m) /\ FGt(hb.value.shape.dims.y, m)])

time_until_too_small(hb, min_size) ==
    Let([m \in {FMul(min_size, F(9, 10))} |->
    Let([result \in {IF FLt(hb.vel.resize.x, Zero)
        THEN FMin(INFINITY, FDiv(FSub(m, hb.value.shape.dims.x), hb.vel.resize.x))
        ELSE INFINITY} |->
    IF FLt(hb.vel.resize.y, Zero)
    THEN FMin(result, FDiv(FSub(m, hb.value.shape.dims.y), hb.vel.resize.y))
    ELSE result])])

is_still(vel) == vel.value = VecZero /\ vel.resize = VecZero

\* DurHitbox::bounding_box_for(duration); advanced_shape asserts
\* time < HIGH_TIME, which is BoundingBoxOk
BoundingBoxOk(hb, duration) == is_still(hb.vel) \/ FLt(duration, HighTime)

bounding_box_for(hb, duration) ==
    IF is_still(hb.vel) THEN as_rect(hb.value)
    ELSE bounding_box(hb.value, advanced_shape(hb, duration))

\* --------------------------------------------------------------- solvers --

\* rect_rect_time: the loop over Card::values() with its early returns;
\* i is the next card, os / oe are overlap_start / overlap_end
RECURSIVE RectRectLoop(_, _, _, _, _, _)
RectRectLoop(a, b, for_collide, i, os, oe) ==
    IF i > Len(CardValues) THEN (IF for_collide THEN os ELSE oe)
    ELSE
      Let([overlap \in {card_overlap(a.value.pos, a.value.shape.dims,
                       b.value.pos, b.value.shape.dims, CardValues[i])} |->
      Let([overlap_vel \in {card_overlap(a.vel.value, a.vel.resize,
                       b.vel.value, b.vel.resize, CardValues[i])} |->
      IF FLt(overlap, Zero) /\ ~for_collide THEN Zero
      ELSE IF FLt(overlap, Zero) /\ FLe(overlap_vel, Zero) THEN INFINITY
      ELSE
        Let([overlap_start \in {IF FLt(overlap, Zero)
            THEN FMax(os, FDiv(FNeg(overlap), overlap_vel)) ELSE os} |->
        Let([overlap_end \in {IF ~FLt(overlap, Zero) /\ FLt(overlap_vel, Zero)
            THEN FMin(oe, FDiv(FNeg(overlap), overlap_vel)) ELSE oe} |->
        IF FGe(overlap_start, overlap_end) THEN (IF for_collide THEN INFINITY ELSE Zero)
        ELSE RectRectLoop(a, b, for_collide, i + 1, overlap_start, overlap_end)])])])])

rect_rect_time(a, b, for_collide) == RectRectLoop(a, b, for_collide, 1, Zero, INFINITY)

\* a faulty time_unpadded: it returns times at or after the duration
time_unpadded_unbounded(a, b, for_collide, duration) == rect_rect_time(a, b, for_collide)

\* time_unpadded, for the rect/rect pairs the model draws
time_unpadded(a, b, for_collide, duration) ==
    Let([result \in {rect_rect_time(a, b, for_collide)} |-> IF FGe(result, duration) THEN INFINITY ELSE result])

\* the assertion inside collide_time (bounding_box_for -> advanced_shape)
CollideTimeOk(a, b) ==
    Let([duration \in {FMin(a.vel.duration, b.vel.duration)} |-> BoundingBoxOk(a, duration) /\ BoundingBoxOk(b, duration)])

collide_time(a, b) ==
    Let([duration \in {FMin(a.vel.duration, b.vel.duration)} |->
    IF overlaps(bounding_box_for(a, duration), bounding_box_for(b, duration))
    THEN time_unpadded(a, b, TRUE, duration)
    ELSE INFINITY])

separate_time(a, b, pad) ==
    Let([a1 \in {IF a.value.shape.kind = "Rect" /\ b.value.shape.kind = "Circle" THEN b ELSE a} |->
    Let([b1 \in {IF a.value.shape.kind = "Rect" /\ b.value.shape.kind = "Circle" THEN a ELSE b} |->
    Let([a2 \in {[a1 EXCEPT !.value.shape =
           Shape(a1.value.shape.kind,
                 VecAdd(a1.value.shape.dims, VecScale(v2(pad, pad), I(2))))]} |->
    time_unpadded(a2, b1, FALSE, FMin(a2.vel.duration, b1.vel.duration))])])])

\* ------------------------------------------------------------- utilities --

\* Option<T>: None is <<>>, Some(x) is <<x>>
None == <<>>

Some(x) == <<x>>

IsSome(o) == Len(o) = 1

MapPut(f, k, v) == [x \in DOMAIN f \cup {k} |-> IF x = k THEN v ELSE f[x]]

MapRemove(f, ks) == [x \in DOMAIN f \ ks |-> f[x]]

EmptyMap == [x \in {} |-> 0]

SetMin(S) == CHOOSE x \in S : \A y \in S : x <= y

\* the iteration order of a hash set of ids: the model iterates in
\* increasing id order
RECURSIVE SetToSeq(_)
SetToSeq(S) == IF S = {} THEN <<>> ELSE <<SetMin(S)>> \o SetToSeq(S \ {SetMin(S)})

\* order: the order in which the hash sets of this run iterate. TightSet wraps
\* std's HashSet, whose RandomState is keyed anew in every process, so the
\* order is not fixed by the program; a run keeps one
VARIABLE order

\* TightSet::iter / TightSet::drain
TightSetIter(S) == SelectSeq(order, LAMBDA id : id \in S)

\* ---------------------------------------------------------- event queue --

\* EventKey.index is a u64 whose bit 63 (PAIR_BASE) marks a pair event; the
\* model keeps it as <<bit 63, low 63 bits>>, which orders like the u64
EventKey(time, index) == [time |-> time, index |-> index]

IndexLt(i, j) == i[1] < j[1] \/ (i[1] = j[1] /\ i[2] < j[2])

\* Ord for EventKey
\* a faulty EventKey::cmp: of two keys of one time the later index is first
KeyLtLifo(k1, k2) ==
    IF FEq(k1.time, k2.time) THEN IndexLt(k2.index, k1.index) ELSE FLt(k1.time, k2.time)

KeyLt(k1, k2) ==
    IF FEq(k1.time, k2.time) THEN IndexLt(k1.index, k2.index) ELSE FLt(k1.time, k2.time)

Collide(a, b) == [kind |-> "Collide", ids |-> <<a, b>>]

Separate(a, b) == [kind |-> "Separate", ids |-> <<a, b>>]

Reiterate(id) == [kind |-> "Reiterate", ids |-> <<id>>]

PanicSmallHitbox(id) == [kind |-> "PanicSmallHitbox", ids |-> <<id>>]

PanicDurationPassed(id) == [kind |-> "PanicDurationPassed", ids |-> <<id>>]

involved_hitbox_ids(event) == event.ids

\* OneOrTwo::other_id; OtherIdOk is FALSE where it panics ("illegal state")
OtherIdOk(event, id) == \E i \in 1..Len(event.ids) : event.ids[i] = id

other_id(event, id) ==
    IF Len(event.ids) = 1 THEN None
    ELSE IF event.ids[1] = id THEN Some(event.ids[2]) ELSE Some(event.ids[1])

\* EventManager::new()
NewEventManager == [events |-> EmptyMap, next_event_index |-> 0]

\* a faulty new_event_key: it allocates a key for any time
new_event_key_unbounded(em, time, for_pair) ==
    Some(EventKey(time, <<IF for_pair THEN 1 ELSE 0, em.next_event_index>>))

new_event_key(em, time, for_pair) ==
    IF FGe(time, HighTime) THEN None
    ELSE Some(EventKey(time, <<IF for_pair THEN 1 ELSE 0, em.next_event_index>>))

\* the EventManager after new_event_key
AfterNewKey(em, time) ==
    IF FGe(time, HighTime) THEN em
    ELSE [em EXCEPT !.next_event_index = em.next_event_index + 1]

\* a faulty add_solitaire_event: the event replaces no event and is not queued
add_solitaire_event_lost(em, time, event, key_set) ==
    [em |-> AfterNewKey(em, time), key_set |-> key_set, panic |-> ""]

add_solitaire_event(em, time, event, key_set) ==
    LET k == new_event_key(em, time, FALSE)
        em1 == AfterNewKey(em, time)
    IN  IF ~IsSome(k) THEN [em |-> em1, key_set |-> key_set, panic |-> ""]
        ELSE [em |-> [em1 EXCEPT !.events = MapPut(em.events, k[1], event)],
              key_set |-> key_set \cup {k[1]},
              panic |-> IF k[1] \in DOMAIN em.events \/ k[1] \in key_set
                        THEN "assertion failed: insert" ELSE ""]

\* a faulty add_pair_event: the event is not queued
add_pair_event_lost(em, time, event, first_key_set, second_key_set) ==
    [em |-> AfterNewKey(em, time), first |-> first_key_set, second |-> second_key_set,
     panic |-> ""]

add_pair_event(em, time, event, first_key_set, second_key_set) ==
    LET k == new_event_key(em, time, TRUE)
        em1 == AfterNewKey(em, time)
    IN  IF ~IsSome(k)
        THEN [em |-> em1, first |-> first_key_set, second |-> second_key_set, panic |-> ""]
        ELSE [em |-> [em1 EXCEPT !.events = MapPut(em.events, k[1], event)],
              first |-> first_key_set \cup {k[1]},
              second |-> second_key_set \cup {k[1]},
              panic |-> IF \/ k[1] \in DOMAIN em.events
                           \/ k[1] \in first_key_set
                           \/ k[1] \in second_key_set
                        THEN "assertion failed: insert" ELSE ""]

\* clear_related_events(id, key_set, map): map is the hitbox table without
\* the record of id
ClearRelatedOk(em, id, key_set, map) ==
    \A key \in key_set :
        /\ key \in DOMAIN em.events
        /\ OtherIdOk(em.events[key], id)
        /\ LET o == other_id(em.events[key], id)
           IN  IsSome(o) => (o[1] \in DOMAIN map /\ key \in map[o[1]].event_keys)

\* a faulty clear_related_events: it leaves the keys in the key sets of the
\* other hitboxes
clear_related_events_local(em, id, key_set, map) ==
    IF ~ClearRelatedOk(em, id, key_set, map)
    THEN [em |-> em, key_set |-> key_set, map |-> map,
          panic |-> "clear_related_events: illegal state"]
    ELSE [em |-> [em EXCEPT !.events = MapRemove(em.events, key_set)],
          key_set |-> {}, map |-> map, panic |-> ""]

clear_related_events(em, id, key_set, map) ==
    IF ~ClearRelatedOk(em, id, key_set, map)
    THEN [em |-> em, key_set |-> key_set, map |-> map,
          panic |-> "clear_related_events: illegal state"]
    ELSE [em |-> [em EXCEPT !.events = MapRemove(em.events, key_set)],
          key_set |-> {},
          map |-> [o \in DOMAIN map |->
                     [map[o] EXCEPT !.event_keys =
                        map[o].event_keys \
                          {key \in key_set : other_id(em.events[key], id) = Some(o)}]],
          panic |-> ""]

peek_key(em) ==
    IF DOMAIN em.events = {} THEN None
    ELSE Some(CHOOSE k \in DOMAIN em.events :
                \A k2 \in DOMAIN em.events : k2 = k \/ KeyLt(k, k2))

peek_time(em) == IF IsSome(peek_key(em)) THEN peek_key(em)[1].time ELSE INFINITY

\* a faulty EventManager::next: it pops a pair event whatever its time
events_next_early(em, time, map) ==
    LET pk == peek_key(em)
    IN  IF IsSome(pk) /\ (FEq(pk[1].time, time) \/ pk[1].index[1] = 1)
        THEN LET key == pk[1]
                 event == em.events[key]
             IN  [em |-> [em EXCEPT !.events = MapRemove(em.events, {key})],
                  map |-> [o \in DOMAIN map |->
                             IF \E i \in 1..Len(event.ids) : event.ids[i] = o
                             THEN [map[o] EXCEPT !.event_keys = map[o].event_keys \ {key}]
                             ELSE map[o]],
                  event |-> Some(event), panic |-> ""]
        ELSE [em |-> em, map |-> map, event |-> None, panic |-> ""]

\* a faulty EventManager::next: it removes the first event before it tests
\* the event's time
events_next_drop(em, time, map) ==
    LET pk == peek_key(em)
    IN  IF IsSome(pk)
        THEN LET key == pk[1]
                 event == em.events[key]
             IN  [em |-> [em EXCEPT !.events = MapRemove(em.events, {key})],
                  map |-> [o \in DOMAIN map |->
                             IF \E i \in 1..Len(event.ids) : event.ids[i] = o
                             THEN [map[o] EXCEPT !.event_keys = map[o].event_keys \ {key}]
                             ELSE map[o]],
                  event |-> IF FEq(key.time, time) THEN Some(event) ELSE None,
                  panic |-> ""]
        ELSE [em |-> em, map |-> map, event |-> None, panic |-> ""]

\* EventManager::next(time, map)
EventsNextOk(event, key, map) ==
    \A i \in 1..Len(event.ids) :
        event.ids[i] \in DOMAIN map /\ key \in map[event.ids[i]].event_keys

events_next(em, time, map) ==
    LET pk == peek_key(em)
    IN  IF IsSome(pk) /\ FEq(pk[1].time, time)
        THEN LET key == pk[1]
                 event == em.events[key]
             IN  IF ~EventsNextOk(event, key, map)
                 THEN [em |-> em, map |-> map, event |-> None,
                       panic |-> "EventManager::next: illegal state"]
                 ELSE [em |-> [em EXCEPT !.events = MapRemove(em.events, {key})],
                       map |-> [o \in DOMAIN map |->
                                  IF \E i \in 1..Len(event.ids) : event.ids[i] = o
                                  THEN [map[o] EXCEPT !.event_keys = map[o].event_keys \ {key}]
                                  ELSE map[o]],
                       event |-> Some(event), panic |-> ""]
        ELSE [em |-> em, map |-> map, event |-> None, panic |-> ""]

\* ------------------------------------------------------------------ grid --

IndexRect(start, end) == [start |-> start, end |-> end]

\* the cells IndexRect::iter() yields
RectCells(rect) ==
    {<<x, y>> : x \in rect.start[1]..(rect.end[1] - 1), y \in rect.start[2]..(rect.end[2] - 1)}

\* a faulty Iter::next: it enters the next column at the row it has reached
iter_next_same_row(rect, val) ==
    IF ~IsSome(val) THEN Some(rect.start)
    ELSE IF val[1][1] = rect.end[1] - 1 /\ val[1][2] = rect.end[2] - 1 THEN None
    ELSE IF val[1][2] = rect.end[2] - 1 THEN Some(<<val[1][1] + 1, val[1][2]>>)
    ELSE Some(<<val[1][1], val[1][2] + 1>>)

\* Iter::next: the value of self.val after the call, which the call returns
iter_next(rect, val) ==
    IF IsSome(val)
    THEN IF val[1][2] = rect.end[2] - 1
         THEN IF val[1][1] = rect.end[1] - 1 THEN None
              ELSE Some(<<val[1][1] + 1, rect.start[2]>>)
         ELSE Some(<<val[1][1], val[1][2] + 1>>)
    ELSE Some(rect.start)

rect_contains(rect, val) ==
    /\ val[1] >= rect.start[1] /\ val[1] < rect.end[1]
    /\ val[2] >= rect.start[2] /\ val[2] < rect.end[2]

GridKey(coord, group) == [coord |-> coord, group |-> group]

GridArea(rect, group) == [rect |-> rect, group |-> group]

area_contains(area, key) == area.group = key.group /\ rect_contains(area.rect, key.coord)

IntMax(a, b) == IF a > b THEN a ELSE b

index_bounds(bounds) ==
    Let([start_x \in {FloorI32(FDiv(min_x(bounds.pos, bounds.shape.dims), cell_width))} |->
    Let([start_y \in {FloorI32(FDiv(min_y(bounds.pos, bounds.shape.dims), cell_width))} |->
    Let([end_x \in {IntMax(CeilI32(FDiv(max_x(bounds.pos, bounds.shape.dims), cell_width)), start_x + 1)} |->
    Let([end_y \in {IntMax(CeilI32(FDiv(max_y(bounds.pos, bounds.shape.dims), cell_width)), start_y + 1)} |->
    IndexRect(<<start_x, start_y>>, <<end_x, end_y>>)])])])])

\* DurHitbox::bounding_box()
dur_bounding_box(hb) == bounding_box_for(hb, hb.vel.duration)

grid_area(hitbox, group) == GridArea(index_bounds(dur_bounding_box(hitbox)), group)

cell_period(hitbox, has_group) ==
    IF has_group
    THEN Let([speed \in {max_edge(hitbox.vel.value, hitbox.vel.resize)} |-> IF FLe(speed, Zero) THEN INFINITY ELSE FDiv(cell_width, speed)])
    ELSE INFINITY

overlapping_ids(map, hitbox_id, rect, groups) ==
    {o \in UNION {map[k] : k \in {k2 \in DOMAIN map :
                                    k2.group \in groups /\ rect_contains(rect, k2.coord)}} :
        Some(o) # hitbox_id}

\* the keys update_area removes hitbox_id from, and the keys it inserts it at
AreaKeys(area) == {GridKey(c, area.group) : c \in RectCells(area.rect)}

RemovedKeys(old_area, new_area) ==
    IF ~IsSome(old_area) THEN {}
    ELSE {k \in AreaKeys(old_area[1]) : ~IsSome(new_area) \/ ~area_contains(new_area[1], k)}

InsertedKeys(old_area, new_area) ==
    IF ~IsSome(new_area) THEN {}
    ELSE {k \in AreaKeys(new_area[1]) : ~IsSome(old_area) \/ ~area_contains(old_area[1], k)}

UpdateAreaOk(map, hitbox_id, old_area, new_area) ==
    /\ \A k \in RemovedKeys(old_area, new_area) : k \in DOMAIN map /\ hitbox_id \in map[k]
    /\ \A k \in InsertedKeys(old_area, new_area) : k \in DOMAIN map => hitbox_id \notin map[k]

\* a faulty update_area: it leaves the hitbox in the cells it moved out of
update_area_leaky(map, hitbox_id, old_area, new_area) ==
    Let([ins \in {InsertedKeys(old_area, new_area)} |->
    [k \in DOMAIN map \cup ins |->
       IF k \in ins
       THEN (IF k \in DOMAIN map THEN map[k] ELSE {}) \cup {hitbox_id}
       ELSE map[k]]])

update_area(map, hitbox_id, old_area, new_area) ==
    Let([rem \in {RemovedKeys(old_area, new_area)} |->
    Let([ins \in {InsertedKeys(old_area, new_area)} |->
    Let([m1 \in {[k \in {k2 \in DOMAIN map : k2 \notin rem \/ map[k2] # {hitbox_id}} |->
                     IF k \in rem THEN map[k] \ {hitbox_id} ELSE map[k]]} |->
    [k \in DOMAIN m1 \cup ins |->
       IF k \in ins
       THEN (IF k \in DOMAIN m1 THEN m1[k] ELSE {}) \cup {hitbox_id}
       ELSE m1[k]]])])])

\* Grid::update_hitbox: [map, ids (Option), panic]
grid_update_hitbox(map, hitbox_id, group, old_hitbox, new_hitbox, groups) ==
    IF ~(IsSome(new_hitbox) \/ groups = {})
    THEN [map |-> map, ids |-> None, panic |-> "assertion failed: groups.is_empty()"]
    ELSE IF \/ (IsSome(old_hitbox) /\ ~BoundingBoxOk(old_hitbox[1], old_hitbox[1].vel.duration))
            \/ (IsSome(new_hitbox) /\ ~BoundingBoxOk(new_hitbox[1], new_hitbox[1].vel.duration))
    THEN [map |-> map, ids |-> None, panic |-> "requires time < HIGH_TIME"]
    ELSE
      Let([old_area \in {IF IsSome(old_hitbox) THEN Some(grid_area(old_hitbox[1], group)) ELSE None} |->
      Let([new_area \in {IF IsSome(new_hitbox) THEN Some(grid_area(new_hitbox[1], group)) ELSE None} |->
      IF ~UpdateAreaOk(map, hitbox_id, old_area, new_area)
      THEN [map |-> map, ids |-> None, panic |-> "update_area: assertion failed"]
      ELSE
        Let([m \in {update_area(map, hitbox_id, old_area, new_area)} |->
        [map |-> m,
         ids |-> IF IsSome(new_area)
                 THEN Some(overlapping_ids(m, Some(hitbox_id), new_area[1].rect, groups))
                 ELSE None,
         panic |-> ""]])])])

shape_cellmates(map, shape, groups) == overlapping_ids(map, None, index_bounds(shape), groups)

\* -------------------------------------------------------------- profiles --

\* HbProfile: id(), group(), interact_groups() and the user's predicate
\* can_interact(), which here refuses the pair {1, 2}
HbProfile(id, group) == [id |-> id, group |-> group, interact_groups |-> {0}]

NonInteracting == {{1, 2}}

can_interact(p, q) == {p.id, q.id} \notin NonInteracting

\* -------------------------------------------------------------- collider --

\* HitboxInfo::new
NewHitboxInfo(hitbox, profile, start_time) ==
    [profile |-> profile, hitbox |-> hitbox, start_time |-> start_time,
     pub_end_time |-> hitbox.vel.end_time, event_keys |-> {}, overlaps |-> {}]

\* the assertion of HitboxInfo::hitbox_at_time
HitboxAtTimeOk(info, t) == FGe(t, info.start_time) /\ FLe(t, info.hitbox.vel.end_time)

hitbox_at_time(info, t) ==
    to_dur_hitbox([info.hitbox EXCEPT
                     !.value = advanced_shape(info.hitbox, FSub(t, info.start_time))], t)

\* the assertion of HitboxInfo::pub_hitbox_at_time
PubHitboxAtTimeOk(info, t) == FGe(t, info.start_time) /\ FLe(t, info.pub_end_time)

\* a faulty pub_hitbox_at_time: it returns the end_time kept internally
pub_hitbox_at_time_internal(info, t) ==
    [info.hitbox EXCEPT !.value = advanced_shape(info.hitbox, FSub(t, info.start_time))]

pub_hitbox_at_time(info, t) ==
    LET r == [info.hitbox EXCEPT !.vel.end_time = info.pub_end_time]
    IN  [r EXCEPT !.value = advanced_shape(r, FSub(t, info.start_time))]

\* Collider::new(cell_width, padding); the grid's cell_width and the padding
\* are the definitions cell_width and padding
NewCollider ==
    [hitboxes |-> EmptyMap, time |-> Zero, grid |-> EmptyMap,
     events |-> NewEventManager, panic |-> ""]

Panic(c, msg) == [c EXCEPT !.panic = msg]

\* a faulty new_event: it keeps the order of the ids
new_event_unordered(event, id_1, id_2) == <<event, id_1, id_2>>

\* new_event(event, id_1, id_2); the assertion id_1 != id_2 is checked by
\* the caller (process_event)
new_event(event, id_1, id_2) ==
    IF id_1 > id_2 THEN <<event, id_2, id_1>> ELSE <<event, id_1, id_2>>

\* a faulty process_collision: it does not record the overlap
process_collision_forgetful(id_1, hb_1, id_2, hb_2, em, t, pad) ==
    IF ~HitboxAtTimeOk(hb_1, t) \/ ~HitboxAtTimeOk(hb_2, t)
    THEN [hb_1 |-> hb_1, hb_2 |-> hb_2, events |-> em, panic |-> "invalid time"]
    ELSE
      Let([delay \in {separate_time(hitbox_at_time(hb_1, t), hitbox_at_time(hb_2, t), pad)} |->
      Let([r \in {add_pair_event(em, FAdd(t, delay), Separate(id_1, id_2),
                         hb_1.event_keys, hb_2.event_keys)} |->
      [hb_1 |-> [hb_1 EXCEPT !.event_keys = r.first],
       hb_2 |-> [hb_2 EXCEPT !.event_keys = r.second],
       events |-> r.em, panic |-> r.panic]])])

\* process_collision(id_1, hb_1, id_2, hb_2, events, time, padding):
\* [hb_1, hb_2, events, panic]
process_collision(id_1, hb_1, id_2, hb_2, em, t, pad) ==
    IF id_2 \in hb_1.overlaps \/ id_1 \in hb_2.overlaps
    THEN [hb_1 |-> hb_1, hb_2 |-> hb_2, events |-> em,
          panic |-> "assertion failed: overlaps.insert"]
    ELSE IF ~HitboxAtTimeOk(hb_1, t) \/ ~HitboxAtTimeOk(hb_2, t)
    THEN [hb_1 |-> hb_1, hb_2 |-> hb_2, events |-> em, panic |-> "invalid time"]
    ELSE
      Let([delay \in {separate_time(hitbox_at_time(hb_1, t), hitbox_at_time(hb_2, t), pad)} |->
      Let([r \in {add_pair_event(em, FAdd(t, delay), Separate(id_1, id_2),
                         hb_1.event_keys, hb_2.event_keys)} |->
      [hb_1 |-> [hb_1 EXCEPT !.overlaps = hb_1.overlaps \cup {id_2}, !.event_keys = r.first],
       hb_2 |-> [hb_2 EXCEPT !.overlaps = hb_2.overlaps \cup {id_1}, !.event_keys = r.second],
       events |-> r.em, panic |-> r.panic]])])

\* solitaire_event_check (the cfg(debug_assertions) version): [info, events, panic]
solitaire_event_check(c, id, hitbox_info, has_group) ==
    IF ~TooSmallOk(hitbox_info.hitbox, padding)
    THEN [info |-> hitbox_info, events |-> c.events, panic |-> "illegal state"]
    ELSE
      Let([r0 \in {<<FAdd(c.time, cell_period(hitbox_info.hitbox, has_group)), Reiterate(id)>>} |->
      Let([end_time \in {hitbox_info.hitbox.vel.end_time} |->
      Let([r1 \in {IF FLt(end_time, r0[1]) THEN <<end_time, PanicDurationPassed(id)>> ELSE r0} |->
      Let([end_time2 \in {FAdd(c.time, time_until_too_small(hitbox_info.hitbox, padding))} |->
      Let([result \in {IF FLt(end_time2, r1[1]) THEN <<end_time2, PanicSmallHitbox(id)>> ELSE r1} |->
      Let([r \in {add_solitaire_event(c.events, result[1], result[2], hitbox_info.event_keys)} |->
      [info |-> [hitbox_info EXCEPT !.pub_end_time = hitbox_info.hitbox.vel.end_time,
                                    !.hitbox.vel.end_time = result[1],
                                    !.event_keys = r.key_set],
       events |-> r.em, panic |-> r.panic]])])])])])])

\* update_hitbox_tracking, first loop: a Separate event for every overlap.
\* x is [c, info]; ids is the iteration order of info.overlaps
RECURSIVE TrackOverlaps(_, _, _, _, _)
TrackOverlaps(x, id, new_hitbox, ids, i) ==
    IF x.c.panic # "" \/ i > Len(ids) THEN x
    ELSE
      LET oid == ids[i]
      IN  IF oid \notin DOMAIN x.c.hitboxes
          THEN [x EXCEPT !.c = Panic(x.c, "called Option::unwrap() on a None value")]
          ELSE IF ~HitboxAtTimeOk(x.c.hitboxes[oid], x.c.time)
          THEN [x EXCEPT !.c = Panic(x.c, "invalid time")]
          ELSE
            Let([other_info \in {x.c.hitboxes[oid]} |->
            Let([delay \in {separate_time(new_hitbox, hitbox_at_time(other_info, x.c.time), padding)} |->
            Let([r \in {add_pair_event(x.c.events, FAdd(x.c.time, delay), Separate(id, oid),
                               x.info.event_keys, other_info.event_keys)} |->
            TrackOverlaps(
              [c |-> [x.c EXCEPT !.events = r.em,
                                 !.hitboxes[oid].event_keys = r.second,
                                 !.panic = r.panic],
               info |-> [x.info EXCEPT !.event_keys = r.first]],
              id, new_hitbox, ids, i + 1)])])])

\* update_hitbox_tracking, second loop, one candidate that passed the tests
\* of the loop body: the collision is reported now or queued
TrackCandidate(x, id, old_hitbox, new_hitbox, oid) ==
    Let([other_info \in {x.c.hitboxes[oid]} |->
    Let([delay \in {collide_time(new_hitbox, hitbox_at_time(other_info, x.c.time))} |->
    IF ~IsSome(old_hitbox) /\ FEq(delay, Zero)
    THEN Let([r \in {process_collision(id, x.info, oid, other_info, x.c.events, x.c.time, padding)} |->
         [c |-> [x.c EXCEPT !.events = r.events, !.hitboxes[oid] = r.hb_2,
                            !.panic = r.panic],
          info |-> r.hb_1,
          result |-> Append(x.result, other_info.profile)]])
    ELSE Let([r \in {add_pair_event(x.c.events, FAdd(x.c.time, delay), Collide(id, oid),
                            x.info.event_keys, other_info.event_keys)} |->
         [c |-> [x.c EXCEPT !.events = r.em, !.hitboxes[oid].event_keys = r.second,
                            !.panic = r.panic],
          info |-> [x.info EXCEPT !.event_keys = r.first],
          result |-> x.result]])])])

\* update_hitbox_tracking, second loop: the candidates found in the grid.
\* x is [c, info, result]
RECURSIVE TrackCandidates(_, _, _, _, _, _)
TrackCandidates(x, id, old_hitbox, new_hitbox, ids, i) ==
    IF x.c.panic # "" \/ i > Len(ids) THEN x
    ELSE
      TrackCandidates(
        LET oid == ids[i]
        IN  IF ~(~IsSome(old_hitbox) \/ oid \notin x.info.overlaps) THEN x
            ELSE IF oid \notin DOMAIN x.c.hitboxes
            THEN [x EXCEPT !.c = Panic(x.c, "called Option::unwrap() on a None value")]
            ELSE IF ~can_interact(x.info.profile, x.c.hitboxes[oid].profile) THEN x
            ELSE IF ~HitboxAtTimeOk(x.c.hitboxes[oid], x.c.time)
            THEN [x EXCEPT !.c = Panic(x.c, "invalid time")]
            ELSE IF ~CollideTimeOk(new_hitbox, hitbox_at_time(x.c.hitboxes[oid], x.c.time))
            THEN [x EXCEPT !.c = Panic(x.c, "requires time < HIGH_TIME")]
            ELSE TrackCandidate(x, id, old_hitbox, new_hitbox, oid),
        id, old_hitbox, new_hitbox, ids, i + 1)

\* a faulty update_hitbox_tracking: it replaces the record of an id that is
\* in the table
update_hitbox_tracking_replacing(c, id, info, old_hitbox, new_hitbox) ==
    Let([x1 \in {IF IsSome(info.profile.group)
        THEN TrackOverlaps([c |-> c, info |-> info], id, new_hitbox,
                           TightSetIter(info.overlaps), 1)
        ELSE [c |-> c, info |-> info]} |->
    Let([g \in {IF IsSome(info.profile.group) /\ x1.c.panic = ""
        THEN grid_update_hitbox(x1.c.grid, id, info.profile.group[1], old_hitbox,
                                Some(new_hitbox), info.profile.interact_groups)
        ELSE [map |-> x1.c.grid, ids |-> Some({}), panic |-> x1.c.panic]} |->
    Let([x3 \in {IF g.panic = ""
        THEN TrackCandidates([c |-> [x1.c EXCEPT !.grid = g.map],
                              info |-> x1.info, result |-> <<>>],
                             id, old_hitbox, new_hitbox, SetToSeq(g.ids[1]), 1)
        ELSE [c |-> [x1.c EXCEPT !.grid = g.map, !.panic = g.panic],
              info |-> x1.info, result |-> <<>>]} |->
    IF x3.c.panic # "" THEN [c |-> x3.c, result |-> x3.result]
    ELSE [c |-> [x3.c EXCEPT !.hitboxes = MapPut(x3.c.hitboxes, id, x3.info)],
          result |-> x3.result]])])])

\* a faulty update_hitbox_tracking: a hitbox without a group is tracked in
\* group 0
update_hitbox_tracking_ungrouped(c, id, info, old_hitbox, new_hitbox) ==
    Let([x1 \in {IF TRUE
        THEN TrackOverlaps([c |-> c, info |-> info], id, new_hitbox,
                           TightSetIter(info.overlaps), 1)
        ELSE [c |-> c, info |-> info]} |->
    Let([g \in {IF x1.c.panic = ""
        THEN grid_update_hitbox(x1.c.grid, id, 0, old_hitbox,
                                Some(new_hitbox), info.profile.interact_groups)
        ELSE [map |-> x1.c.grid, ids |-> Some({}), panic |-> x1.c.panic]} |->
    Let([x3 \in {IF g.panic = ""
        THEN TrackCandidates([c |-> [x1.c EXCEPT !.grid = g.map],
                              info |-> x1.info, result |-> <<>>],
                             id, old_hitbox, new_hitbox, SetToSeq(g.ids[1]), 1)
        ELSE [c |-> [x1.c EXCEPT !.grid = g.map, !.panic = g.panic],
              info |-> x1.info, result |-> <<>>]} |->
    IF x3.c.panic # "" THEN [c |-> x3.c, result |-> x3.result]
    ELSE IF id \in DOMAIN x3.c.hitboxes
    THEN [c |-> Panic(x3.c, "assertion failed: hitboxes.insert"), result |-> x3.result]
    ELSE [c |-> [x3.c EXCEPT !.hitboxes = MapPut(x3.c.hitboxes, id, x3.info)],
          result |-> x3.result]])])])

\* update_hitbox_tracking(id, info, old_hitbox, new_hitbox): [c, result]
update_hitbox_tracking(c, id, info, old_hitbox, new_hitbox) ==
    Let([x1 \in {IF IsSome(info.profile.group)
        THEN TrackOverlaps([c |-> c, info |-> info], id, new_hitbox,
                           TightSetIter(info.overlaps), 1)
        ELSE [c |-> c, info |-> info]} |->
    Let([g \in {IF IsSome(info.profile.group) /\ x1.c.panic = ""
        THEN grid_update_hitbox(x1.c.grid, id, info.profile.group[1], old_hitbox,
                                Some(new_hitbox), info.profile.interact_groups)
        ELSE [map |-> x1.c.grid, ids |-> Some({}), panic |-> x1.c.panic]} |->
    Let([x3 \in {IF g.panic = ""
        THEN TrackCandidates([c |-> [x1.c EXCEPT !.grid = g.map],
                              info |-> x1.info, result |-> <<>>],
                             id, old_hitbox, new_hitbox, SetToSeq(g.ids[1]), 1)
        ELSE [c |-> [x1.c EXCEPT !.grid = g.map, !.panic = g.panic],
              info |-> x1.info, result |-> <<>>]} |->
    IF x3.c.panic # "" THEN [c |-> x3.c, result |-> x3.result]
    ELSE IF id \in DOMAIN x3.c.hitboxes
    THEN [c |-> Panic(x3.c, "assertion failed: hitboxes.insert"), result |-> x3.result]
    ELSE [c |-> [x3.c EXCEPT !.hitboxes = MapPut(x3.c.hitboxes, id, x3.info)],
          result |-> x3.result]])])])

\* a faulty add_hitbox: it tracks the overlaps it finds and reports none
add_hitbox_unreported(c, profile, hitbox) ==
    IF ~validate(hitbox, padding, c.time)
    THEN [c |-> Panic(c, "Hitbox::validate"), result |-> <<>>]
    ELSE
      Let([s \in {solitaire_event_check(c, profile.id, NewHitboxInfo(hitbox, profile, c.time),
                                IsSome(profile.group))} |->
      IF s.panic # ""
      THEN [c |-> [c EXCEPT !.events = s.events, !.panic = s.panic], result |-> <<>>]
      ELSE [c |-> update_hitbox_tracking([c EXCEPT !.events = s.events], profile.id, s.info,
                                         None, to_dur_hitbox(s.info.hitbox, c.time)).c,
            result |-> <<>>]])

\* Collider::add_hitbox(profile, hitbox): [c, result]
add_hitbox(c, profile, hitbox) ==
    IF ~validate(hitbox, padding, c.time)
    THEN [c |-> Panic(c, "Hitbox::validate"), result |-> <<>>]
    ELSE
      Let([s \in {solitaire_event_check(c, profile.id, NewHitboxInfo(hitbox, profile, c.time),
                                IsSome(profile.group))} |->
      IF s.panic # ""
      THEN [c |-> [c EXCEPT !.events = s.events, !.panic = s.panic], result |-> <<>>]
      ELSE update_hitbox_tracking([c EXCEPT !.events = s.events], profile.id, s.info,
                                  None, to_dur_hitbox(s.info.hitbox, c.time))])

\* Collider::internal_update_hitbox(id, vel)
internal_update_hitbox(c, id, vel) ==
    IF id \notin DOMAIN c.hitboxes THEN Panic(c, "hitbox id not found")
    ELSE IF ~PubHitboxAtTimeOk(c.hitboxes[id], c.time) THEN Panic(c, "invalid time")
    ELSE
      Let([old_hitbox \in {to_dur_hitbox(c.hitboxes[id].hitbox, c.hitboxes[id].start_time)} |->
      Let([hitbox \in {pub_hitbox_at_time(c.hitboxes[id], c.time)} |->
      Let([hitbox_info \in {[c.hitboxes[id] EXCEPT
             !.hitbox = IF IsSome(vel) THEN [hitbox EXCEPT !.vel = vel[1]] ELSE hitbox,
             !.start_time = c.time]} |->
      IF IsSome(vel) /\ ~validate(hitbox_info.hitbox, padding, c.time)
      THEN Panic(c, "Hitbox::validate")
      ELSE
        Let([cl \in {clear_related_events(c.events, id, hitbox_info.event_keys,
                                 MapRemove(c.hitboxes, {id}))} |->
        IF cl.panic # ""
        THEN [c EXCEPT !.hitboxes = cl.map, !.events = cl.em, !.panic = cl.panic]
        ELSE
          Let([c1 \in {[c EXCEPT !.hitboxes = cl.map, !.events = cl.em]} |->
          Let([s \in {solitaire_event_check(c1, id, [hitbox_info EXCEPT !.event_keys = cl.key_set],
                                    IsSome(hitbox_info.profile.group))} |->
          IF s.panic # "" THEN [c1 EXCEPT !.events = s.events, !.panic = s.panic]
          ELSE
            Let([u \in {update_hitbox_tracking([c1 EXCEPT !.events = s.events], id, s.info,
                                       Some(old_hitbox),
                                       to_dur_hitbox(s.info.hitbox, c.time))} |->
            IF u.c.panic = "" /\ u.result # <<>>
            THEN Panic(u.c, "assertion failed: result.is_empty()")
            ELSE u.c])])])])])])])

\* a faulty set_hitbox_vel: it ignores an id that is not tracked
set_hitbox_vel_lenient(c, id, vel) ==
    IF id \notin DOMAIN c.hitboxes THEN c
    ELSE IF c.hitboxes[id].hitbox.vel # vel THEN internal_update_hitbox(c, id, Some(vel))
    ELSE c

\* Collider::set_hitbox_vel(id, vel)
set_hitbox_vel(c, id, vel) ==
    IF id \notin DOMAIN c.hitboxes THEN Panic(c, "hitbox id not found")
    ELSE IF c.hitboxes[id].hitbox.vel # vel THEN internal_update_hitbox(c, id, Some(vel))
    ELSE c

\* a faulty clear_overlaps: it clears the overlaps and returns no profile
clear_overlaps_unreported(c, id, hitbox_info) ==
    IF \E o \in hitbox_info.overlaps : o \notin DOMAIN c.hitboxes
    THEN [c |-> Panic(c, "called Option::unwrap() on a None value"), result |-> <<>>]
    ELSE IF \E o \in hitbox_info.overlaps : id \notin c.hitboxes[o].overlaps
    THEN [c |-> Panic(c, "assertion failed: overlaps.remove"), result |-> <<>>]
    ELSE [c |-> [c EXCEPT !.hitboxes =
                   [o \in DOMAIN c.hitboxes |->
                      IF o \in hitbox_info.overlaps
                      THEN [c.hitboxes[o] EXCEPT !.overlaps = c.hitboxes[o].overlaps \ {id}]
                      ELSE c.hitboxes[o]]],
          result |-> <<>>]

\* a faulty clear_overlaps: it returns the profiles and leaves the id in the
\* overlaps of the others
clear_overlaps_one_sided(c, id, hitbox_info) ==
    IF \E o \in hitbox_info.overlaps : o \notin DOMAIN c.hitboxes
    THEN [c |-> Panic(c, "called Option::unwrap() on a None value"), result |-> <<>>]
    ELSE [c |-> c,
          result |-> [i \in 1..Cardinality(hitbox_info.overlaps) |->
                        c.hitboxes[TightSetIter(hitbox_info.overlaps)[i]].profile]]

\* Collider::clear_overlaps(id, hitbox_info): [c, result]
clear_overlaps(c, id, hitbox_info) ==
    IF \E o \in hitbox_info.overlaps : o \notin DOMAIN c.hitboxes
    THEN [c |-> Panic(c, "called Option::unwrap() on a None value"), result |-> <<>>]
    ELSE IF \E o \in hitbox_info.overlaps : id \notin c.hitboxes[o].overlaps
    THEN [c |-> Panic(c, "assertion failed: overlaps.remove"), result |-> <<>>]
    ELSE [c |-> [c EXCEPT !.hitboxes =
                   [o \in DOMAIN c.hitboxes |->
                      IF o \in hitbox_info.overlaps
                      THEN [c.hitboxes[o] EXCEPT !.overlaps = c.hitboxes[o].overlaps \ {id}]
                      ELSE c.hitboxes[o]]],
          result |-> [i \in 1..Cardinality(hitbox_info.overlaps) |->
                        c.hitboxes[TightSetIter(hitbox_info.overlaps)[i]].profile]]

\* Collider::remove_hitbox(id): [c, result]
remove_hitbox(c, id) ==
    IF id \notin DOMAIN c.hitboxes
    THEN [c |-> Panic(c, "hitbox id not found"), result |-> <<>>]
    ELSE
      Let([hitbox_info \in {c.hitboxes[id]} |->
      Let([cl \in {clear_related_events(c.events, id, hitbox_info.event_keys,
                               MapRemove(c.hitboxes, {id}))} |->
      IF cl.panic # ""
      THEN [c |-> [c EXCEPT !.hitboxes = cl.map, !.events = cl.em, !.panic = cl.panic],
            result |-> <<>>]
      ELSE
        Let([g \in {IF IsSome(hitbox_info.profile.group)
            THEN grid_update_hitbox(c.grid, id, hitbox_info.profile.group[1],
                                    Some(to_dur_hitbox(hitbox_info.hitbox,
                                                       hitbox_info.start_time)),
                                    None, {})
            ELSE [map |-> c.grid, ids |-> None, panic |-> ""]} |->
        IF g.panic # ""
        THEN [c |-> [c EXCEPT !.hitboxes = cl.map, !.events = cl.em, !.grid = g.map,
                              !.panic = g.panic],
              result |-> <<>>]
        ELSE clear_overlaps([c EXCEPT !.hitboxes = cl.map, !.events = cl.em,
                                      !.grid = g.map],
                            id, [hitbox_info EXCEPT !.event_keys = cl.key_set])])])])

\* Collider::process_event(event), the Separate arm after its assertions
ProcessSeparate(c, id_1, id_2) ==
    Let([hitbox_info_1 \in {c.hitboxes[id_1]} |->
    Let([hitbox_info_2 \in {c.hitboxes[id_2]} |->
    Let([delay \in {collide_time(hitbox_at_time(hitbox_info_1, c.time),
                     hitbox_at_time(hitbox_info_2, c.time))} |->
    Let([r \in {add_pair_event(c.events, FAdd(c.time, delay), Collide(id_1, id_2),
                       hitbox_info_1.event_keys, hitbox_info_2.event_keys)} |->
    [c |-> [c EXCEPT
              !.hitboxes[id_1] =
                  [hitbox_info_1 EXCEPT !.overlaps = hitbox_info_1.overlaps \ {id_2},
                                        !.event_keys = r.first],
              !.hitboxes[id_2] =
                  [hitbox_info_2 EXCEPT !.overlaps = hitbox_info_2.overlaps \ {id_1},
                                        !.event_keys = r.second],
              !.events = r.em,
              !.panic = r.panic],
     ret |-> IF r.panic = "" THEN Some(new_event("Separate", id_1, id_2)) ELSE None]])])])])

\* Collider::process_event(event): [c, ret], ret an Option<(HbEvent, HbId, HbId)>
process_event(c, event) ==
    IF event.kind \in {"Collide", "Separate"}
    THEN
      LET id_1 == event.ids[1]
          id_2 == event.ids[2]
      IN  IF id_1 \notin DOMAIN c.hitboxes \/ id_2 \notin DOMAIN c.hitboxes \/ id_1 = id_2
          THEN [c |-> Panic(c, "called Option::unwrap() on a None value"), ret |-> None]
          ELSE IF event.kind = "Collide"
          THEN Let([r \in {process_collision(id_1, c.hitboxes[id_1], id_2, c.hitboxes[id_2],
                                     c.events, c.time, padding)} |->
               [c |-> [c EXCEPT !.hitboxes[id_1] = r.hb_1,
                                !.hitboxes[id_2] = r.hb_2,
                                !.events = r.events,
                                !.panic = r.panic],
                ret |-> IF r.panic = "" THEN Some(new_event("Collide", id_1, id_2))
                        ELSE None]])
          ELSE IF \/ id_2 \notin c.hitboxes[id_1].overlaps
                  \/ id_1 \notin c.hitboxes[id_2].overlaps
          THEN [c |-> Panic(c, "assertion failed: overlaps.remove"), ret |-> None]
          ELSE IF \/ ~HitboxAtTimeOk(c.hitboxes[id_1], c.time)
                  \/ ~HitboxAtTimeOk(c.hitboxes[id_2], c.time)
          THEN [c |-> Panic(c, "invalid time"), ret |-> None]
          ELSE IF ~CollideTimeOk(hitbox_at_time(c.hitboxes[id_1], c.time),
                                 hitbox_at_time(c.hitboxes[id_2], c.time))
          THEN [c |-> Panic(c, "requires time < HIGH_TIME"), ret |-> None]
          ELSE ProcessSeparate(c, id_1, id_2)
    ELSE IF event.kind = "Reiterate"
    THEN [c |-> internal_update_hitbox(c, event.ids[1], None), ret |-> None]
    ELSE IF event.kind = "PanicSmallHitbox"
    THEN [c |-> Panic(c, "hitbox became too small"), ret |-> None]
    ELSE [c |-> Panic(c, "hitbox was not updated before duration passed"), ret |-> None]

\* a faulty Collider::next: it processes one event and does not loop
next_once(c) ==
    Let([n \in {events_next(c.events, c.time, c.hitboxes)} |->
    IF n.panic # "" \/ ~IsSome(n.event)
    THEN [c |-> [c EXCEPT !.events = n.em, !.hitboxes = n.map, !.panic = n.panic],
          ret |-> None, queued |-> None]
    ELSE
      Let([p \in {process_event([c EXCEPT !.events = n.em, !.hitboxes = n.map], n.event[1])} |->
      IF p.c.panic # "" \/ ~IsSome(p.ret) THEN [c |-> p.c, ret |-> None, queued |-> None]
      ELSE [c |-> p.c,
            ret |-> Some(<<p.ret[1][1],
                           p.c.hitboxes[p.ret[1][2]].profile,
                           p.c.hitboxes[p.ret[1][3]].profile>>),
            queued |-> Some([time |-> peek_key(c.events)[1].time, ids |-> n.event[1].ids])]])])

\* Collider::next(): the while-let loop.  [c, ret, queued]; ret is an
\* Option<(HbEvent, P, P)>, queued the time of the key and the ids of the
\* internal event that was returned
RECURSIVE next(_)
next(c) ==
    Let([n \in {events_next(c.events, c.time, c.hitboxes)} |->
    IF n.panic # "" \/ ~IsSome(n.event)
    THEN [c |-> [c EXCEPT !.events = n.em, !.hitboxes = n.map, !.panic = n.panic],
          ret |-> None, queued |-> None]
    ELSE
      Let([p \in {process_event([c EXCEPT !.events = n.em, !.hitboxes = n.map], n.event[1])} |->
      IF p.c.panic # "" THEN [c |-> p.c, ret |-> None, queued |-> None]
      ELSE IF IsSome(p.ret)
      THEN [c |-> p.c,
            ret |-> Some(<<p.ret[1][1],
                           p.c.hitboxes[p.ret[1][2]].profile,
                           p.c.hitboxes[p.ret[1][3]].profile>>),
            queued |-> Some([time |-> peek_key(c.events)[1].time, ids |-> n.event[1].ids])]
      ELSE next(p.c)])])

\* Collider::next_time()
next_time(c) == peek_time(c.events)

\* a faulty set_time: it does not compare the time with next_time()
set_time_past_events(c, t) ==
    IF ~FGe(t, c.time) THEN Panic(c, "cannot rewind time")
    ELSE IF ~FLt(t, HighTime) THEN Panic(c, "time must not exceed HIGH_TIME")
    ELSE [c EXCEPT !.time = t]

\* a faulty set_time: it lets the clock go back
set_time_rewinding(c, t) ==
    IF ~FLe(t, next_time(c)) THEN Panic(c, "time must not exceed next_time()")
    ELSE IF ~FLt(t, HighTime) THEN Panic(c, "time must not exceed HIGH_TIME")
    ELSE [c EXCEPT !.time = t]

\* a faulty set_time: it does not compare the time with HIGH_TIME
set_time_unbounded(c, t) ==
    IF ~FGe(t, c.time) THEN Panic(c, "cannot rewind time")
    ELSE IF ~FLe(t, next_time(c)) THEN Panic(c, "time must not exceed next_time()")
    ELSE [c EXCEPT !.time = t]

\* Collider::set_time(time)
set_time(c, t) ==
    IF ~FGe(t, c.time) THEN Panic(c, "cannot rewind time")
    ELSE IF ~FLe(t, next_time(c)) THEN Panic(c, "time must not exceed next_time()")
    ELSE IF ~FLt(t, HighTime) THEN Panic(c, "time must not exceed HIGH_TIME")
    ELSE [c EXCEPT !.time = t]

\* Collider::get_hitbox(id), for a tracked id
get_hitbox(c, id) == pub_hitbox_at_time(c.hitboxes[id], c.time)

\* Collider::get_hitbox(id) returns: the index self.hitboxes[&id] finds the id
\* and the assertion of pub_hitbox_at_time holds
GetHitboxOk(c, id) ==
    id \in DOMAIN c.hitboxes /\ PubHitboxAtTimeOk(c.hitboxes[id], c.time)

\* Collider::get_overlaps(id) returns: the id and each of its overlaps is found
GetOverlapsOk(c, id) ==
    id \in DOMAIN c.hitboxes /\ \A o \in c.hitboxes[id].overlaps : o \in DOMAIN c.hitboxes

\* Collider::get_overlaps(id): the profiles of the overlaps of a tracked id
get_overlaps(c, id) ==
    [i \in 1..Cardinality(c.hitboxes[id].overlaps) |->
       c.hitboxes[TightSetIter(c.hitboxes[id].overlaps)[i]].profile]

\* the hitboxes Collider::query_overlaps(shape, profile) tests against the shape
QueryCandidates(c, shape, profile) ==
    {id \in shape_cellmates(c.grid, shape, profile.interact_groups) :
        can_interact(c.hitboxes[id].profile, profile)}

\* the assertion of pub_hitbox_at_time holds for each of them
QueryOverlapsOk(c, shape, profile) ==
    \A id \in QueryCandidates(c, shape, profile) : PubHitboxAtTimeOk(c.hitboxes[id], c.time)

\* Collider::query_overlaps(shape, profile)
query_overlaps(c, shape, profile) ==
    Let([found \in {SetToSeq({id \in QueryCandidates(c, shape, profile) :
                                 overlaps(pub_hitbox_at_time(c.hitboxes[id], c.time).value,
                                          shape)})} |->
    [i \in 1..Len(found) |-> c.hitboxes[found[i]].profile]])

\* a faulty is_overlapping: it takes a hitbox that is not tracked to overlap
is_overlapping_unknown(c, id_1, id_2) ==
    IF id_1 \in DOMAIN c.hitboxes THEN id_2 \in c.hitboxes[id_1].overlaps ELSE TRUE

\* Collider::is_overlapping(id_1, id_2)
is_overlapping(c, id_1, id_2) ==
    IF id_1 \in DOMAIN c.hitboxes THEN id_2 \in c.hitboxes[id_1].overlaps ELSE FALSE

\* ------------------------------------------------------------ the engine --

\* bounds of the exploration
MaxTime == 3

MaxEventIndex == 5

\* the queries get_hitbox, get_overlaps and is_overlapping are asked, and
\* add_hitbox is called with an id that is tracked, while the event index
\* counter is below MaxQueryIndex
MaxQueryIndex == 3

\* the hitbox ids the caller draws from.  Every hitbox is a 2 x 2 square on
\* the line y = 0 that moves along x.  Hitbox 0 is the moving one: it starts
\* still at x = -1 or at x = -5 with velocity 2, and its velocity is set to
\* 2 or -2.  Hitbox 1 is an obstacle at x = 1: it is added still and is
\* neither moved nor removed.
Ids == {0, 1}

Movable == {0}

Starts(id) == IF id \in Movable THEN {<<-5, 2>>, <<-1, 0>>} ELSE {<<1, 0>>}

Speeds(id) == IF id \in Movable THEN {-2, 2} ELSE {}

\* the profile of hitbox 3 has no group
ProfileOf(id) == HbProfile(id, IF id = 3 THEN None ELSE Some(0))

NewHitbox(x, vx) ==
    Hitbox(PlacedShape(v2(I(x), Zero), Shape("Rect", v2(I(2), I(2)))),
           HbVel(v2(I(vx), Zero), VecZero, INFINITY))

Pairs == {{a, b} : a \in Ids, b \in Ids} \ {{a} : a \in Ids}

\* hitboxes, time, grid, events: the fields of the Collider; panic: the
\* message of the panic that ended the program, "" while it runs; last: the
\* last public call; pairLast: per pair, the kinds of the last two events next()
\* returned for it since both were tracked, the latest last, with "Overlap"
\* for an add_hitbox that returned the peer; eventTime: the time of the last
\* event next() returned; defined: per tracked id, the hitbox as the caller
\* defined it last, by add_hitbox or by set_hitbox_vel on the shape it had
\* reached, moved back along its velocity to time 0; replay: the public calls
\* of a first run with the values they returned, and how far a second run
\* has repeated them; unit: the arguments and the result of a function that
\* is called on its own, <<>> where the Collider runs
VARIABLES hitboxes, time, grid, events, panic, last, pairLast, eventTime, defined, replay, unit

vars == <<hitboxes, time, grid, events, panic, last, pairLast, eventTime, defined, order,
          replay, unit, mantissa>>

\* no call is recorded
NoReplay == [pass |-> 1, calls |-> <<>>, rets |-> <<>>, pos |-> 0]

\* the Collider as one value
Self == [hitboxes |-> hitboxes, time |-> time, grid |-> grid, events |-> events,
         panic |-> panic]

Becomes(c) ==
    /\ hitboxes' = c.hitboxes
    /\ time' = c.time
    /\ grid' = c.grid
    /\ events' = c.events
    /\ panic' = c.panic

\* a hitbox the caller defines at the current time, moved back to time 0
Defines(hb) == Some([hb EXCEPT !.value = advanced_shape(hb, FNeg(time))])

\* the hitbox the caller defined, at the current time
AsDefined(id) == [defined[id][1] EXCEPT !.value = advanced_shape(defined[id][1], time)]

\* the last two elements of a sequence
LastTwo(q) == IF Len(q) > 2 THEN Tail(q) ELSE q

\* the last public call, its arguments and what it returned; for a next()
\* that returned an event, t is the time the event was queued for and id the
\* first id of the queued event; for is_overlapping(id_1, id_2), id is id_1
\* and ret the pair of id_2 and the boolean returned
Call(op, id, t, ret) == [op |-> op, id |-> id, t |-> t, ret |-> ret]

Init ==
    /\ hitboxes = NewCollider.hitboxes
    /\ time = NewCollider.time
    /\ grid = NewCollider.grid
    /\ events = NewCollider.events
    /\ panic = NewCollider.panic
    /\ last = Call("new", -1, Zero, <<>>)
    /\ pairLast = [p \in Pairs |-> <<>>]
    /\ eventTime = Zero
    /\ defined = [id \in Ids |-> None]
    /\ order = <<0, 1, 2>>
    /\ replay = NoReplay
    /\ unit = <<>>
    /\ mantissa = 0

AddHitbox(id, x, vx) ==
    /\ panic = ""
    /\ events.next_event_index < MaxEventIndex
    /\ (id \in DOMAIN hitboxes => events.next_event_index < MaxQueryIndex)
    /\ \E r \in {add_hitbox(Self, ProfileOf(id), NewHitbox(x, vx))} :
           /\ Becomes(r.c)
           /\ last' = Call("add_hitbox", id, Zero, r.result)
           /\ pairLast' = [p \in Pairs |->
                             IF \E i \in 1..Len(r.result) : p = {id, r.result[i].id}
                             THEN <<"Overlap">> ELSE pairLast[p]]
           /\ defined' = IF r.c.panic = ""
                         THEN [defined EXCEPT ![id] = Defines(NewHitbox(x, vx))]
                         ELSE defined
    /\ UNCHANGED eventTime
    /\ UNCHANGED <<order, replay, unit, mantissa>>

SetHitboxVel(id, vx) ==
    /\ panic = ""
    /\ events.next_event_index < MaxEventIndex
    /\ \E c \in {set_hitbox_vel(Self, id, HbVel(v2(I(vx), Zero), VecZero, INFINITY))} :
           /\ Becomes(c)
           /\ defined' = IF c.panic = "" /\ IsSome(defined[id])
                         THEN [defined EXCEPT ![id] =
                                 Defines([AsDefined(id) EXCEPT
                                            !.vel = HbVel(v2(I(vx), Zero), VecZero, INFINITY)])]
                         ELSE defined
    /\ last' = Call("set_hitbox_vel", id, Zero, <<>>)
    /\ UNCHANGED <<pairLast, eventTime>>
    /\ UNCHANGED <<order, replay, unit, mantissa>>

RemoveHitbox(id) ==
    /\ panic = ""
    /\ \E r \in {remove_hitbox(Self, id)} :
           /\ Becomes(r.c)
           /\ last' = Call("remove_hitbox", id, Zero, r.result)
    /\ pairLast' = [p \in Pairs |-> IF id \in p THEN <<>> ELSE pairLast[p]]
    /\ defined' = [defined EXCEPT ![id] = None]
    /\ UNCHANGED eventTime
    /\ UNCHANGED <<order, replay, unit, mantissa>>

\* the times the caller passes to set_time: the time of the next event and
\* the next whole time unit, up to MaxTime, and three times that violate a
\* precondition
SetTimeArgs ==
    {t \in {next_time(Self), I(FloorI32(time) + 1)} : FLe(t, I(MaxTime))}
        \cup {FSub(time, I(1)), FAdd(next_time(Self), I(1)), HighTime}

SetTime(t) ==
    /\ panic = ""
    /\ \E c \in {set_time(Self, t)} : Becomes(c)
    /\ last' = Call("set_time", -1, t, <<>>)
    /\ UNCHANGED <<pairLast, eventTime, defined>>
    /\ UNCHANGED <<order, replay, unit, mantissa>>

NextEvent ==
    /\ panic = ""
    /\ events.next_event_index < MaxEventIndex
    /\ \E r \in {next(Self)} :
           /\ Becomes(r.c)
           /\ last' = IF IsSome(r.queued)
                      THEN Call("next", r.queued[1].ids[1], r.queued[1].time, r.ret)
                      ELSE Call("next", -1, Zero, r.ret)
           /\ pairLast' = IF IsSome(r.ret)
                          THEN [pairLast EXCEPT ![{r.ret[1][2].id, r.ret[1][3].id}] =
                                                    LastTwo(Append(@, r.ret[1][1]))]
                          ELSE pairLast
           /\ eventTime' = IF IsSome(r.ret) THEN r.queued[1].time ELSE eventTime
    /\ UNCHANGED defined
    /\ UNCHANGED <<order, replay, unit, mantissa>>

\* a query leaves the Collider alone; it panics or returns
Asked(ok, call) ==
    /\ panic' = (IF ok THEN "" ELSE "hitbox id not found")
    /\ last' = call
    /\ UNCHANGED <<hitboxes, time, grid, events, pairLast, eventTime, defined>>
    /\ UNCHANGED <<order, replay, unit, mantissa>>

GetHitbox(id) ==
    /\ panic = ""
    /\ events.next_event_index < MaxQueryIndex
    /\ Asked(GetHitboxOk(Self, id),
             Call("get_hitbox", id, Zero,
                  IF GetHitboxOk(Self, id) THEN Some(get_hitbox(Self, id)) ELSE None))

GetOverlaps(id) ==
    /\ panic = ""
    /\ events.next_event_index < MaxQueryIndex
    /\ Asked(GetOverlapsOk(Self, id),
             Call("get_overlaps", id, Zero,
                  IF GetOverlapsOk(Self, id) THEN get_overlaps(Self, id) ELSE <<>>))

IsOverlapping(id_1, id_2) ==
    /\ panic = ""
    /\ events.next_event_index < MaxQueryIndex
    /\ Asked(TRUE, Call("is_overlapping", id_1, Zero,
                        <<id_2, is_overlapping(Self, id_1, id_2)>>))

\* query_overlaps is asked about a square that touches the place of hitbox 1
\* and one in that place (Next), for a profile that interacts with hitbox 0
\* and not with hitbox 1
QueryOverlaps(shape, profile) ==
    /\ panic = ""
    /\ events.next_event_index < MaxQueryIndex
    /\ panic' = (IF QueryOverlapsOk(Self, shape, profile) THEN "" ELSE "invalid time")
    /\ last' = Call("query_overlaps", profile.id, Zero,
                    <<shape, IF QueryOverlapsOk(Self, shape, profile)
                             THEN query_overlaps(Self, shape, profile) ELSE <<>>>>)
    /\ UNCHANGED <<hitboxes, time, grid, events, pairLast, eventTime, defined>>
    /\ UNCHANGED <<order, replay, unit, mantissa>>

Next ==
    \/ \E id \in Ids : \E s \in Starts(id) : AddHitbox(id, s[1], s[2])
    \/ \E id \in Ids : \E vx \in Speeds(id) : SetHitboxVel(id, vx)
    \/ \E id \in Movable : RemoveHitbox(id)
    \/ \E t \in SetTimeArgs : SetTime(t)
    \/ NextEvent
    \/ \E id \in Ids : GetHitbox(id)
    \/ \E id \in Ids : GetOverlaps(id)
    \/ \E id_1 \in Ids : \E id_2 \in Ids \ {id_1} : IsOverlapping(id_1, id_2)
    \/ \E x \in {-1, 1} : QueryOverlaps(NewHitbox(x, 0).value, ProfileOf(2))

Spec == Init /\ [][Next]_vars

\* ---------------------------------------------------------------- claims --

\* the step is a call of next() that returned an event
Returned == last'.op = "next" /\ IsSome(last'.ret)

\* the shape of a tracked hitbox at the current time
ShapeNow(id) == get_hitbox(Self, id).value

\* the tracked hitboxes other than id whose group is among the
\* interact_groups of id, that can_interact with id, and whose shape overlaps
\* the shape of id at the current time, zero penetration included
OverlappingPeers(id) ==
    {o \in DOMAIN hitboxes \ {id} :
        /\ IsSome(hitboxes[id].profile.group) /\ IsSome(hitboxes[o].profile.group)
        /\ hitboxes[o].profile.group[1] \in hitboxes[id].profile.interact_groups
        /\ can_interact(hitboxes[id].profile, hitboxes[o].profile)
        /\ overlaps(ShapeNow(id), ShapeNow(o))}

\* C1: while two hitboxes both stay tracked, the events next() returns for
\* the pair alternate: an event returned for a pair is never of the kind of
\* the event returned for that pair before it.
C1_Alternate ==
    [][Returned =>
          LET p == {last'.ret[1][2].id, last'.ret[1][3].id}
          IN  pairLast[p] = <<>> \/ pairLast[p][Len(pairLast[p])] # last'.ret[1][1]]_vars

\* C1: next() has returned a Separate for the pair after a Collide
C1_Witness ==
    /\ last.op = "next" /\ IsSome(last.ret)
    /\ pairLast[{0, 1}] = <<"Collide", "Separate">>

\* C2: whenever next() has returned None at the current time, every pair of
\* distinct tracked hitboxes that interact and whose shapes at the current
\* time overlap (zero penetration included) is reported by is_overlapping.
C2_OverlapsTracked ==
    (last.op = "next" /\ last.ret = None /\ panic = "") =>
        \A a \in DOMAIN hitboxes : \A b \in OverlappingPeers(a) :
            is_overlapping(Self, a, b)

\* C3: an event is returned by next() while time() equals the time it was
\* queued for, no event that was queued when next() was called has a
\* strictly smaller time, and the times of the returned events never
\* decrease.
C3_EventTimes ==
    [][Returned =>
          /\ FEq(time', last'.t)
          /\ \A k \in DOMAIN events.events : FGe(k.time, last'.t)
          /\ FLe(eventTime, last'.t)]_vars

\* C3: next() has returned a Separate at a time after 0 while a later event
\* is queued
C3_Witness ==
    /\ last.op = "next" /\ IsSome(last.ret) /\ last.ret[1][1] = "Separate"
    /\ FGt(last.t, Zero)
    /\ \E k \in DOMAIN events.events : FGt(k.time, last.t)

\* C4: after every public call time() <= next_time().
C4_TimeBeforeNext == FLe(time, next_time(Self))

\* C4: set_time has moved the clock onto the time of the next event
C4_Witness ==
    /\ last.op = "set_time" /\ panic = ""
    /\ FGt(time, Zero) /\ FEq(time, next_time(Self))

\* C5: time() starts at 0, never decreases, and only set_time changes it.
C5_Clock ==
    /\ time = Zero
    /\ [][time' # time => (last'.op = "set_time" /\ FLt(time, time'))]_vars

\* C5: next() has re-snapshotted hitbox 0 at a time after 0, and the clock
\* stands where set_time put it
C5_Witness ==
    /\ last.op = "next" /\ panic = "" /\ FGt(time, Zero)
    /\ 0 \in DOMAIN hitboxes /\ FEq(hitboxes[0].start_time, time)

\* a call of set_time violates one of its preconditions
SetTimeRejects(t) == FLt(t, time) \/ FGt(t, next_time(Self)) \/ FGe(t, HighTime)

\* C6: set_time(t) panics when t < time(), t > next_time() or t >= HIGH_TIME,
\* and the clock keeps its value; otherwise it sets the clock to t and
\* changes neither the queue, the hitbox records nor the grid.
C6_SetTime ==
    [][last'.op = "set_time" =>
          IF SetTimeRejects(last'.t)
          THEN panic' # "" /\ time' = time
          ELSE /\ panic' = "" /\ time' = last'.t
               /\ UNCHANGED <<hitboxes, grid, events>>]_vars

\* C6: set_time was refused for a time below HIGH_TIME that is not in the
\* past, while an event is queued
C6_Witness ==
    /\ last.op = "set_time" /\ panic # ""
    /\ FGe(last.t, time) /\ FLt(last.t, HighTime)
    /\ DOMAIN events.events # {}

\* C7: next() returns None whenever next_time() > time(), and then changes
\* nothing.
C7_NothingDue ==
    [][(last'.op = "next" /\ FGt(next_time(Self), time)) =>
          /\ last'.ret = None
          /\ UNCHANGED <<hitboxes, time, grid, events, panic>>]_vars

\* C7: next() has returned None while an event is queued for a later time
\* and a Collide has been returned before
C7_Witness ==
    /\ last.op = "next" /\ last.ret = None /\ panic = ""
    /\ DOMAIN events.events # {} /\ FGt(next_time(Self), time)
    /\ pairLast[{0, 1}] = <<"Collide">>

\* C8: after next() has returned None, next_time() > time().
C8_NoneMeansLater ==
    (last.op = "next" /\ last.ret = None /\ panic = "") => FGt(next_time(Self), time)

\* C8: next() has returned None after re-snapshotting hitbox 0 at the
\* current time, and hitbox 1 is tracked
C8_Witness ==
    /\ last.op = "next" /\ last.ret = None /\ panic = ""
    /\ FGt(time, Zero)
    /\ DOMAIN hitboxes = {0, 1} /\ FEq(hitboxes[0].start_time, time)

\* C9: the tuple next() returns holds two distinct ids, the smaller first.
C9_OrderedIds ==
    (last.op = "next" /\ IsSome(last.ret)) => last.ret[1][2].id < last.ret[1][3].id

\* C9: next() has returned an event that was queued for hitbox 1 first,
\* hitbox 0 second
C9_Witness ==
    /\ last.op = "next" /\ IsSome(last.ret) /\ panic = ""
    /\ last.id = 1
    /\ last.ret[1][2].id = 0 /\ last.ret[1][3].id = 1

\* C10: add_hitbox returns exactly the tracked peers that interact with the
\* new hitbox and whose shape overlaps its shape at the current time (zero
\* penetration included), each once.
C10_AddReturnsOverlaps ==
    (last.op = "add_hitbox" /\ panic = "") =>
        /\ {last.ret[i].id : i \in 1..Len(last.ret)} = OverlappingPeers(last.id)
        /\ Len(last.ret) = Cardinality(OverlappingPeers(last.id))

\* the Collider after the step
SelfNext == [hitboxes |-> hitboxes', time |-> time', grid |-> grid', events |-> events',
             panic |-> panic']

\* a Separate event of the pair is queued
SeparateQueued(a, b) ==
    \E k \in DOMAIN events.events :
        /\ events.events[k].kind = "Separate"
        /\ {events.events[k].ids[i] : i \in 1..Len(events.events[k].ids)} = {a, b}

\* the separate time of two tracked hitboxes, computed at the current time
SeparateDelay(a, b) ==
    separate_time(hitbox_at_time(hitboxes[a], time), hitbox_at_time(hitboxes[b], time),
                  padding)

\* the last call was an add_hitbox that returned
Added == last.op = "add_hitbox" /\ panic = ""

\* C11: each peer add_hitbox returns overlaps the added hitbox right after the
\* call, in both directions, and a Separate event of the pair is queued unless
\* the separate time computed for it is infinite; next() returns no Collide
\* for such a pair before it returns a Separate for it
C11_InitialOverlap ==
    /\ [](Added =>
            \A i \in 1..Len(last.ret) :
                /\ is_overlapping(Self, last.id, last.ret[i].id)
                /\ is_overlapping(Self, last.ret[i].id, last.id)
                /\ (~FEq(SeparateDelay(last.id, last.ret[i].id), INFINITY)
                      => SeparateQueued(last.id, last.ret[i].id)))
    /\ [][(Returned /\ last'.ret[1][1] = "Collide")
            => pairLast[{last'.ret[1][2].id, last'.ret[1][3].id}] # <<"Overlap">>]_vars

\* add_hitbox returned a peer whose Separate event is queued
C11_Witness ==
    /\ Added
    /\ Len(last.ret) = 1
    /\ ~FEq(SeparateDelay(last.id, last.ret[1].id), INFINITY)
    /\ SeparateQueued(last.id, last.ret[1].id)

\* the kinds recorded for the pair of the event the step returns
Before == LET p == {last'.ret[1][2].id, last'.ret[1][3].id}
          IN  {pairLast[p][i] : i \in 1..Len(pairLast[p])}

Removed == last'.op = "remove_hitbox" /\ panic' = ""

\* C13: remove_hitbox(id) returns the profiles get_overlaps(id) returned right
\* before the call, each of them once
C13_RemoveReturnsOverlaps ==
    [][Removed =>
         /\ GetOverlapsOk(Self, last'.id)
         /\ Len(last'.ret) = Len(get_overlaps(Self, last'.id))
         /\ \A p \in {get_overlaps(Self, last'.id)[i] :
                        i \in 1..Len(get_overlaps(Self, last'.id))} :
                Cardinality({i \in 1..Len(last'.ret) : last'.ret[i] = p}) = 1]_vars

\* remove_hitbox returned the profile of an overlapping hitbox
C13_Witness ==
    /\ last.op = "remove_hitbox"
    /\ panic = ""
    /\ Len(last.ret) = 1
    /\ last.ret[1].id = 1

\* nothing of the Collider mentions the id
Gone(id) ==
    /\ id \notin DOMAIN hitboxes
    /\ \A o \in DOMAIN hitboxes : id \notin hitboxes[o].overlaps
    /\ \A k \in DOMAIN events.events :
           \A i \in 1..Len(events.events[k].ids) : events.events[k].ids[i] # id
    /\ \A cell \in DOMAIN grid : id \notin grid[cell]

\* C14: once remove_hitbox(id) returned and until the id is added again, the
\* id is not tracked, no hitbox has it in its overlaps, no queued event and no
\* grid cell mentions it, and next() returns no event of it
C14_Removed ==
    /\ [](panic = "" => \A id \in Ids \ DOMAIN hitboxes : Gone(id))
    /\ [][Removed => DOMAIN hitboxes' = DOMAIN hitboxes \ {last'.id}]_vars
    /\ [][Returned => {last'.ret[1][2].id, last'.ret[1][3].id} \subseteq DOMAIN hitboxes]_vars

\* hitbox 0 was removed while it overlapped hitbox 1, after events were queued
C14_Witness ==
    /\ last.op = "remove_hitbox"
    /\ panic = ""
    /\ Len(last.ret) = 1
    /\ DOMAIN hitboxes = {1}
    /\ events.next_event_index >= 3

\* the Collider after remove_hitbox of the id the step added
Undone == remove_hitbox(SelfNext, last'.id).c

\* C15: add_hitbox(p, hb) followed at once by remove_hitbox(p.id()) restores
\* the queued events, the record of every other hitbox with its event keys
\* and its overlaps, the grid and the time; the event index counter does not
\* go back
C15_AddRemove ==
    [][(last'.op = "add_hitbox" /\ panic' = "") =>
         /\ Undone.panic = ""
         /\ Undone.events.events = events.events
         /\ Undone.hitboxes = hitboxes
         /\ Undone.grid = grid
         /\ Undone.time = time
         /\ Undone.events.next_event_index >= events.next_event_index]_vars

\* add_hitbox queued events, one of them with a tracked peer, and the
\* remove_hitbox that follows returns the peer the add returned
C15_Witness ==
    /\ Added
    /\ Len(last.ret) = 1
    /\ SeparateQueued(last.id, last.ret[1].id)
    /\ remove_hitbox(Self, last.id).c.panic = ""
    /\ remove_hitbox(Self, last.id).result = last.ret
    /\ remove_hitbox(Self, last.id).c.events.next_event_index >= 2

C17_SameVelNoOp ==
    [][(/\ last'.op = "set_hitbox_vel"
        /\ panic' = ""
        /\ GetHitboxOk(Self, last'.id)
        /\ defined'[last'.id][1].vel = get_hitbox(Self, last'.id).vel)
         => UNCHANGED <<hitboxes, grid, events>>]_vars

\* C18: add_hitbox with an id that is tracked panics; the Collider does not go
\* on with a replaced record or with two records, sets of events or grid
\* entries of the id
C18_IdClash ==
    [][(last'.op = "add_hitbox" /\ last'.id \in DOMAIN hitboxes) => panic' # ""]_vars

\* add_hitbox panicked on a tracked id whose cells the new hitbox does not
\* share
C18_Witness ==
    /\ last.op = "add_hitbox"
    /\ last.id \in DOMAIN hitboxes
    /\ panic = "assertion failed: hitboxes.insert"

\* the step is a call of one of the four operations on an id that is not
\* tracked
OnUntracked ==
    /\ last'.op \in {"set_hitbox_vel", "remove_hitbox", "get_hitbox", "get_overlaps"}
    /\ last'.id \notin DOMAIN hitboxes

\* C19: set_hitbox_vel, remove_hitbox, get_hitbox and get_overlaps panic on an
\* id that is not tracked: they return no value and create no record of it
C19_UnknownId ==
    [][OnUntracked =>
         /\ panic' # ""
         /\ last'.ret = <<>>
         /\ hitboxes' = hitboxes]_vars

\* set_hitbox_vel panicked on an id that is not tracked while another hitbox
\* is tracked
C19_Witness ==
    /\ last.op = "set_hitbox_vel"
    /\ last.id \notin DOMAIN hitboxes
    /\ DOMAIN hitboxes # {}
    /\ panic = "hitbox id not found"

\* the step is a call of is_overlapping with an id that is not tracked
OverlapOfUntracked ==
    /\ last'.op = "is_overlapping"
    /\ (last'.id \notin DOMAIN hitboxes \/ last'.ret[1] \notin DOMAIN hitboxes)

\* C20, as stated: is_overlapping(id_1, id_2) with an id that is not tracked
\* panics
C20_UnknownIdPanics == [][OverlapOfUntracked => panic' # ""]_vars

\* C20, amended: is_overlapping(id_1, id_2) with an id that is not tracked
\* returns false and does not panic
C20_UnknownIdFalse ==
    [][OverlapOfUntracked => (panic' = "" /\ last'.ret[2] = FALSE)]_vars

\* is_overlapping returned false for an id that is not tracked and one that is
C20_Witness ==
    /\ last.op = "is_overlapping"
    /\ last.id \notin DOMAIN hitboxes
    /\ last.ret[1] \in DOMAIN hitboxes
    /\ last.ret[2] = FALSE
    /\ panic = ""

\* C25: the overlap relation is symmetric and well formed: b is in the
\* overlaps of a iff a is in the overlaps of b, is_overlapping(a, b) equals
\* is_overlapping(b, a) for all ids, and every id in an overlap set is a
\* tracked hitbox other than the owner of the set
C25_SymmetricOverlaps ==
    panic = "" =>
        /\ \A a \in DOMAIN hitboxes :
               /\ GetOverlapsOk(Self, a)
               /\ \A b \in hitboxes[a].overlaps :
                      /\ b \in DOMAIN hitboxes
                      /\ b # a
                      /\ a \in hitboxes[b].overlaps
                      /\ \E i \in 1..Len(get_overlaps(Self, b)) : get_overlaps(Self, b)[i].id = a
        /\ \A a \in Ids : \A b \in Ids :
               is_overlapping(Self, a, b) = is_overlapping(Self, b, a)

\* the two hitboxes overlap each other, after next() returned their Collide
C25_Witness ==
    /\ panic = ""
    /\ DOMAIN hitboxes = {0, 1}
    /\ is_overlapping(Self, 0, 1)
    /\ is_overlapping(Self, 1, 0)
    /\ pairLast[{0, 1}] # <<>>
    /\ pairLast[{0, 1}][Len(pairLast[{0, 1}])] = "Collide"

\* the keys of the queued events that name the id
KeysOf(id) ==
    {k \in DOMAIN events.events :
       \E i \in 1..Len(events.events[k].ids) : events.events[k].ids[i] = id}

\* C26: every key of the event queue is in the event_keys of each hitbox its
\* event names, all of them tracked, and every key in the event_keys of a
\* hitbox is in the queue
C26_KeysMatch ==
    panic = "" =>
        /\ \A k \in DOMAIN events.events :
               \A i \in 1..Len(events.events[k].ids) :
                   /\ events.events[k].ids[i] \in DOMAIN hitboxes
                   /\ k \in hitboxes[events.events[k].ids[i]].event_keys
        /\ \A id \in DOMAIN hitboxes : hitboxes[id].event_keys = KeysOf(id)

\* a pair event and a solitaire event are queued
C26_Witness ==
    /\ panic = ""
    /\ \E k \in DOMAIN events.events : Len(events.events[k].ids) = 2
    /\ \E k \in DOMAIN events.events : Len(events.events[k].ids) = 1
    /\ events.next_event_index >= 4

\* the keys of the queued pair events of the two ids
PairKeys(a, b) == {k \in KeysOf(a) \cap KeysOf(b) : Len(events.events[k].ids) = 2}

\* C28: at most one pair event is queued per pair of hitboxes, a queued
\* Collide belongs to a pair that does not overlap and a queued Separate to a
\* pair that does, and the assertions on overlaps.insert and overlaps.remove
\* fail under no sequence of calls
C28_OnePairEvent ==
    /\ panic \notin {"assertion failed: overlaps.insert", "assertion failed: overlaps.remove"}
    /\ panic = "" =>
         \A a \in DOMAIN hitboxes : \A b \in DOMAIN hitboxes \ {a} :
             /\ Cardinality(PairKeys(a, b)) <= 1
             /\ \A k \in PairKeys(a, b) :
                    /\ events.events[k].kind \in {"Collide", "Separate"}
                    /\ events.events[k].kind = "Separate" <=> b \in hitboxes[a].overlaps

\* a Collide is queued again for the pair next() returned a Separate for
C28_Witness ==
    /\ panic = ""
    /\ DOMAIN hitboxes = {0, 1}
    /\ pairLast[{0, 1}] = <<"Collide", "Separate">>
    /\ \E k \in PairKeys(0, 1) : events.events[k].kind = "Collide"

\* the keys of the queued solitaire events of the id
SolitaireKeys(id) == {k \in KeysOf(id) : Len(events.events[k].ids) = 1}

\* the time solitaire_event_check computes for a hitbox at its start_time
SolitaireTime(info) ==
    FMin(FMin(FAdd(info.start_time, cell_period(info.hitbox, IsSome(info.profile.group))),
              info.pub_end_time),
         FAdd(info.start_time, time_until_too_small(info.hitbox, padding)))

CellsOf(id) == {k \in DOMAIN grid : id \in grid[k]}

\* every tracked hitbox is in exactly the cells its stored snapshot covers
\* from its start_time to its internal end_time, and no other id is in a cell
GridMatches ==
    /\ \A id \in DOMAIN hitboxes :
           CellsOf(id) =
               (IF IsSome(hitboxes[id].profile.group)
                THEN AreaKeys(grid_area(to_dur_hitbox(hitboxes[id].hitbox,
                                                      hitboxes[id].start_time),
                                        hitboxes[id].profile.group[1]))
                ELSE {})
    /\ \A k \in DOMAIN grid : grid[k] \subseteq DOMAIN hitboxes

\* C30, as stated: the cells that hold a hitbox are those its stored
\* snapshot covers, removed ids are in no cell, and the assertions of
\* update_area never fail
C30_GridNeverFails ==
    /\ panic = "" => GridMatches
    /\ panic # "update_area: assertion failed"

\* C30, amended: the cells that hold a hitbox are those its stored snapshot
\* covers, removed ids are in no cell, and an assertion of update_area fails
\* only in an add_hitbox whose id is tracked already
C30_GridMatches ==
    /\ panic = "" => GridMatches
    /\ panic = "update_area: assertion failed" =>
           last.op = "add_hitbox" /\ last.id \in DOMAIN hitboxes

\* a hitbox that its Reiterate event moved to other cells
C30_Witness ==
    /\ panic = ""
    /\ 0 \in DOMAIN hitboxes
    /\ FGt(hitboxes[0].start_time, Zero)
    /\ last.op = "next"
    /\ CellsOf(0) # {}
    /\ \A k \in CellsOf(0) : k.coord[1] >= 0

\* the collide time of two tracked hitboxes, computed at the current time
CollideDelay(a, b) ==
    collide_time(hitbox_at_time(hitboxes[a], time), hitbox_at_time(hitboxes[b], time))

\* the pair events to be queued for a pair: one unless the time computed for
\* the pair is infinite
Due(delay) == IF FLt(FAdd(time, delay), HighTime) THEN 1 ELSE 0

\* C27: every pair of tracked hitboxes that have groups and can interact has
\* exactly one pair event queued, a Separate when the two overlap and a
\* Collide when they do not, or none when the time computed for it is infinite
C27_PairEventQueued ==
    panic = "" =>
        \A a \in DOMAIN hitboxes : \A b \in DOMAIN hitboxes \ {a} :
            (/\ IsSome(hitboxes[a].profile.group) /\ IsSome(hitboxes[b].profile.group)
             /\ hitboxes[b].profile.group[1] \in hitboxes[a].profile.interact_groups
             /\ can_interact(hitboxes[a].profile, hitboxes[b].profile))
            => IF b \in hitboxes[a].overlaps
               THEN /\ Cardinality(PairKeys(a, b)) = Due(SeparateDelay(a, b))
                    /\ \A k \in PairKeys(a, b) : events.events[k].kind = "Separate"
               ELSE /\ Cardinality(PairKeys(a, b)) = Due(CollideDelay(a, b))
                    /\ \A k \in PairKeys(a, b) : events.events[k].kind = "Collide"

\* the pair overlaps with no Separate queued, its separate time being
\* infinite, and the step is a call that neither removes nor redefines a
\* hitbox
StaysTogether(a, b) ==
    /\ panic = ""
    /\ {a, b} \subseteq DOMAIN hitboxes
    /\ b \in hitboxes[a].overlaps
    /\ ~SeparateQueued(a, b)
    /\ last'.op \notin {"add_hitbox", "remove_hitbox", "set_hitbox_vel"}

\* the step returned a Separate of the pair
SeparateReturned(a, b) ==
    /\ Returned
    /\ last'.ret[1][1] = "Separate"
    /\ {last'.ret[1][2].id, last'.ret[1][3].id} = {a, b}

\* the step replaced the snapshot of one of the two by one taken at the new time
Resnapshot(a, b) ==
    \E x \in {a, b} : hitboxes'[x].start_time # hitboxes[x].start_time

\* the time of the Separate the step is to queue for the pair, computed from
\* the snapshots it leaves
SeparateTimeAfter(a, b) ==
    FAdd(time', separate_time(hitbox_at_time(hitboxes'[a], time'),
                              hitbox_at_time(hitboxes'[b], time'), padding))

\* C24, as stated: an overlapping pair whose separate time is infinite gets
\* no Separate queued or returned, whatever Reiterate events re-snapshot the
\* two, until one of them is removed or given a new velocity
C24_NoSeparate ==
    [][\A a \in Ids : \A b \in Ids \ {a} :
          StaysTogether(a, b) => ~SeparateQueued(a, b)' /\ ~SeparateReturned(a, b)]_vars

\* C24, amended: an overlapping pair whose separate time is infinite gets no
\* Separate returned, and none queued but by a Reiterate event that
\* re-snapshots one of the two: it queues a Separate iff the separate time it
\* computes from the new snapshot is below HIGH_TIME
C24_NoSeparateUntilResnapshot ==
    [][\A a \in Ids : \A b \in Ids \ {a} :
          StaysTogether(a, b) =>
              /\ ~SeparateReturned(a, b)
              /\ b \in hitboxes'[a].overlaps
              /\ IF Resnapshot(a, b)
                 THEN SeparateQueued(a, b)' <=> FLt(SeparateTimeAfter(a, b), HighTime)
                 ELSE ~SeparateQueued(a, b)']_vars

\* a Reiterate event re-snapshot hitbox 0 while it overlapped hitbox 1 with
\* no Separate queued
C24_Witness ==
    /\ panic = ""
    /\ last.op = "next"
    /\ is_overlapping(Self, 0, 1)
    /\ FGt(hitboxes[0].start_time, Zero)
    /\ hitboxes[0].start_time = time
    /\ "Overlap" \in {pairLast[{0, 1}][i] : i \in 1..Len(pairLast[{0, 1}])}

\* the tracked hitboxes query_overlaps(shape, profile) is to report: their
\* group is among the interact_groups of the profile, they can_interact with
\* it, and their shape at the current time overlaps the shape
QueryPeers(shape, profile) ==
    {id \in DOMAIN hitboxes :
        /\ IsSome(hitboxes[id].profile.group)
        /\ hitboxes[id].profile.group[1] \in profile.interact_groups
        /\ can_interact(hitboxes[id].profile, profile)
        /\ overlaps(ShapeNow(id), shape)}

\* C21: query_overlaps(shape, profile) returns the profiles of exactly the
\* tracked hitboxes whose group the profile interacts with, that can_interact
\* with the profile and whose shape at time() overlaps the shape, also after
\* the clock moved with no call on them, and it changes nothing in the engine
C21_QueryOverlaps ==
    [][last'.op = "query_overlaps" =>
         /\ panic' = ""
         /\ {last'.ret[2][i] : i \in 1..Len(last'.ret[2])} =
                {hitboxes[id].profile : id \in QueryPeers(last'.ret[1], ProfileOf(last'.id))}
         /\ Len(last'.ret[2]) = Cardinality(QueryPeers(last'.ret[1], ProfileOf(last'.id)))
         /\ UNCHANGED <<hitboxes, time, grid, events>>]_vars

\* ------------------------------------------------ the event queue alone --

\* the EventManager driven as the Collider drives it: of a hitbox at most one
\* solitaire event and of a pair at most one pair event is queued, at the
\* current time or later; hitboxes is the EventKeysMap, time the time of the
\* last pop
MaxQueued == 4

QueueIds == {0, 1, 2}

QueueTimes == {I(1), I(2)}

QueueInit ==
    /\ hitboxes = [id \in QueueIds |-> [event_keys |-> {}]]
    /\ time = Zero
    /\ grid = EmptyMap
    /\ events = NewEventManager
    /\ panic = ""
    /\ last = Call("new", -1, Zero, <<>>)
    /\ pairLast = [p \in Pairs |-> <<>>]
    /\ eventTime = Zero
    /\ defined = [id \in Ids |-> None]
    /\ order = <<0, 1, 2>>
    /\ replay = NoReplay
    /\ unit = <<>>
    /\ mantissa = 0

AddSolitaireEvent(id, t) ==
    /\ panic = ""
    /\ events.next_event_index < MaxQueued
    /\ FGe(t, time)
    /\ SolitaireKeys(id) = {}
    /\ \E r \in {add_solitaire_event(events, t, Reiterate(id), hitboxes[id].event_keys)} :
           /\ events' = r.em
           /\ hitboxes' = [hitboxes EXCEPT ![id].event_keys = r.key_set]
           /\ panic' = r.panic
    /\ last' = Call("add_solitaire_event", id, t, <<>>)
    /\ UNCHANGED <<time, grid, pairLast, eventTime, defined>>
    /\ UNCHANGED <<order, replay, unit, mantissa>>

AddPairEvent(a, b, t) ==
    /\ panic = ""
    /\ events.next_event_index < MaxQueued
    /\ FGe(t, time)
    /\ PairKeys(a, b) = {}
    /\ \E r \in {add_pair_event(events, t, Collide(a, b), hitboxes[a].event_keys,
                                hitboxes[b].event_keys)} :
           /\ events' = r.em
           /\ hitboxes' = [hitboxes EXCEPT ![a].event_keys = r.first,
                                           ![b].event_keys = r.second]
           /\ panic' = r.panic
    /\ last' = Call("add_pair_event", a, t, <<>>)
    /\ UNCHANGED <<time, grid, pairLast, eventTime, defined>>
    /\ UNCHANGED <<order, replay, unit, mantissa>>

\* EventManager::next at the time of the first event queued
PopEvent ==
    /\ panic = ""
    /\ IsSome(peek_key(events))
    /\ \E r \in {events_next(events, peek_time(events), hitboxes)} :
           /\ events' = r.em
           /\ hitboxes' = r.map
           /\ panic' = r.panic
           /\ last' = Call("next", -1, peek_time(events),
                           IF IsSome(r.event) THEN <<peek_key(events)[1], r.event[1]>>
                           ELSE <<>>)
    /\ time' = peek_time(events)
    /\ UNCHANGED <<grid, pairLast, eventTime, defined>>
    /\ UNCHANGED <<order, replay, unit, mantissa>>

QueueNext ==
    \/ \E id \in QueueIds : \E t \in QueueTimes : AddSolitaireEvent(id, t)
    \/ \E a \in QueueIds : \E b \in QueueIds : \E t \in QueueTimes :
           a < b /\ AddPairEvent(a, b, t)
    \/ PopEvent

QueueSpec == QueueInit /\ [][QueueNext]_vars

\* the step popped an event off the queue
Popped == last'.op = "next" /\ last'.ret # <<>>

\* the keys queued for the time of the event the step popped
SameTime == {k \in DOMAIN events.events : FEq(k.time, last'.ret[1].time)}

\* C22, as stated: of the events queued for one time, the one allocated first
\* is popped first, be they pair events or solitaire events
C22_Fifo ==
    [][Popped => \A k \in SameTime : last'.ret[1].index[2] <= k.index[2]]_vars

\* C22, amended: of the events queued for one time, the solitaire events are
\* popped before the pair events, and those of one class in the order they
\* were allocated
C22_FifoPerClass ==
    [][Popped =>
         \A k \in SameTime :
             IF k.index[1] = last'.ret[1].index[1]
             THEN last'.ret[1].index[2] <= k.index[2]
             ELSE last'.ret[1].index[1] = 0]_vars

\* a solitaire event was popped while a pair event allocated before it and a
\* solitaire event allocated after it were queued for its time
C22_Witness ==
    /\ last.op = "next"
    /\ last.ret # <<>>
    /\ last.ret[1].index[1] = 0
    /\ \E k \in DOMAIN events.events :
           FEq(k.time, last.ret[1].time) /\ k.index[1] = 1 /\ k.index[2] < last.ret[1].index[2]
    /\ \E k \in DOMAIN events.events :
           FEq(k.time, last.ret[1].time) /\ k.index[1] = 0 /\ k.index[2] > last.ret[1].index[2]

\* --------------------------------------------- one run and its repetition --

\* a first run makes up to MaxCalls public calls on three hitboxes, hitbox 0
\* still between hitbox 1 and hitbox 2, which move towards it; a second run,
\* on a new Collider whose hash sets iterate in an order of their own, repeats
\* the calls
MaxCalls == 6

Orders == {<<0, 1, 2>>, <<2, 1, 0>>}

Placed(id) == CASE id = 0 -> <<1, 0>> [] id = 1 -> <<-5, 2>> [] id = 2 -> <<7, -2>> [] OTHER -> <<0, 0>>

\* the calls the first run chooses from
Calls ==
    {Call("add_hitbox", id, Zero, <<>>) : id \in {0, 1, 2} \ DOMAIN hitboxes}
        \cup {Call("remove_hitbox", id, Zero, <<>>) : id \in {0} \cap DOMAIN hitboxes}
        \cup {Call("set_time", -1, t, <<>>) :
                t \in {t2 \in {next_time(Self)} : FLt(t2, HighTime) /\ FGt(t2, time)}}
        \cup {Call("next", -1, Zero, <<>>)}

\* the Collider after the call and the value the call returns
Result(call) ==
    CASE call.op = "add_hitbox" ->
             Let([r \in {add_hitbox(Self, ProfileOf(call.id),
                                    NewHitbox(Placed(call.id)[1], Placed(call.id)[2]))} |->
             [c |-> r.c, ret |-> r.result]])
      [] call.op = "remove_hitbox" ->
             Let([r \in {remove_hitbox(Self, call.id)} |-> [c |-> r.c, ret |-> r.result]])
      [] call.op = "set_time" -> [c |-> set_time(Self, call.t), ret |-> <<>>]
      [] OTHER -> Let([r \in {next(Self)} |-> [c |-> r.c, ret |-> r.ret]])

ReplayInit ==
    /\ hitboxes = NewCollider.hitboxes
    /\ time = NewCollider.time
    /\ grid = NewCollider.grid
    /\ events = NewCollider.events
    /\ panic = NewCollider.panic
    /\ last = Call("new", -1, Zero, <<>>)
    /\ pairLast = [p \in Pairs |-> <<>>]
    /\ eventTime = Zero
    /\ defined = [id \in Ids |-> None]
    /\ order \in Orders
    /\ replay = NoReplay
    /\ unit = <<>>
    /\ mantissa = 0

\* the first run makes a call
Called(call) ==
    /\ replay.pass = 1
    /\ panic = ""
    /\ Len(replay.calls) < MaxCalls
    /\ Becomes(Result(call).c)
    /\ last' = [call EXCEPT !.ret = Result(call).ret]
    /\ replay' = [replay EXCEPT !.calls = Append(@, call),
                                !.rets = Append(@, Result(call).ret)]
    /\ UNCHANGED <<pairLast, eventTime, defined, order, unit, mantissa>>

\* the program is started again
Restart ==
    /\ replay.pass = 1
    /\ Len(replay.calls) = MaxCalls
    /\ Becomes(NewCollider)
    /\ last' = Call("new", -1, Zero, <<>>)
    /\ order' \in Orders
    /\ replay' = [replay EXCEPT !.pass = 2]
    /\ UNCHANGED <<pairLast, eventTime, defined, unit, mantissa>>

\* the second run repeats the next call of the first
Repeated ==
    /\ replay.pass = 2
    /\ panic = ""
    /\ replay.pos < Len(replay.calls)
    /\ Becomes(Result(replay.calls[replay.pos + 1]).c)
    /\ last' = [replay.calls[replay.pos + 1] EXCEPT
                  !.ret = Result(replay.calls[replay.pos + 1]).ret]
    /\ replay' = [replay EXCEPT !.pos = @ + 1]
    /\ UNCHANGED <<pairLast, eventTime, defined, order, unit, mantissa>>

ReplayNext ==
    \/ \E call \in Calls : Called(call)
    \/ Restart
    \/ Repeated

ReplaySpec == ReplayInit /\ [][ReplayNext]_vars

\* C23: the values next(), add_hitbox and remove_hitbox return are a function
\* of the sequence of public calls: each call of a repeated sequence returns
\* the value it returned in the first run
C23_Deterministic ==
    (replay.pass = 2 /\ replay.pos > 0) => last.ret = replay.rets[replay.pos]

\* the times that count as infinite for scheduling
HighTimes == {HighTime, INFINITY}

\* C31: no event with a time at or above HIGH_TIME is queued:
\* add_solitaire_event and add_pair_event called with such a time leave the
\* queue, the key sets and the index counter as they are; next_time() is below
\* HIGH_TIME or +infinity, and +infinity exactly when the queue is empty
C31_NoHighTime ==
    /\ \A k \in DOMAIN events.events : FLt(k.time, HighTime)
    /\ FLt(next_time(Self), HighTime) \/ next_time(Self) = INFINITY
    /\ next_time(Self) = INFINITY <=> DOMAIN events.events = {}
    /\ \A t \in HighTimes : \A a \in DOMAIN hitboxes :
           /\ add_solitaire_event(events, t, Reiterate(a), hitboxes[a].event_keys) =
                  [em |-> events, key_set |-> hitboxes[a].event_keys, panic |-> ""]
           /\ \A b \in DOMAIN hitboxes \ {a} :
                  add_pair_event(events, t, Collide(a, b), hitboxes[a].event_keys,
                                 hitboxes[b].event_keys) =
                      [em |-> events, first |-> hitboxes[a].event_keys,
                       second |-> hitboxes[b].event_keys, panic |-> ""]

\* the Separate of an overlapping pair and the Reiterate of a still hitbox
\* were computed for an infinite time, and the queue holds the Reiterate of
\* the moving hitbox alone
C31_Witness ==
    /\ panic = ""
    /\ is_overlapping(Self, 0, 1)
    /\ PairKeys(0, 1) = {}
    /\ SolitaireKeys(1) = {}
    /\ Cardinality(DOMAIN events.events) = 1
    /\ FLt(next_time(Self), HighTime)

Relation(c) == {p \in Pairs : \E a \in p : \E b \in p \ {a} : is_overlapping(c, a, b)}

\* the pairs of the id with the profiles a call returned
WithReturned(id, ret) == {{id, ret[i].id} : i \in 1..Len(ret)}

\* the relation the caller derives from the value the step returned
Derived ==
    CASE last'.op = "add_hitbox" -> Relation(Self) \cup WithReturned(last'.id, last'.ret)
      [] last'.op = "remove_hitbox" -> Relation(Self) \ WithReturned(last'.id, last'.ret)
      [] Returned /\ last'.ret[1][1] = "Collide" ->
             Relation(Self) \cup {{last'.ret[1][2].id, last'.ret[1][3].id}}
      [] Returned /\ last'.ret[1][1] = "Separate" ->
             Relation(Self) \ {{last'.ret[1][2].id, last'.ret[1][3].id}}
      [] OTHER -> Relation(Self)

\* C35: the overlap relation follows from the returned values: it is empty in
\* a new Collider, every call that returns leaves the relation that results
\* from adding the pairs add_hitbox and a Collide of next() return and deleting
\* those remove_hitbox and a Separate return, get_overlaps agrees with it, and
\* set_hitbox_vel, set_time and a next() that returns None leave it alone
C35_OverlapsFromReturns ==
    /\ (last.op = "new" => Relation(Self) = {})
    /\ [][panic' = "" =>
            /\ Relation(SelfNext) = Derived
            /\ \A a \in DOMAIN hitboxes' : \A b \in Ids \ {a} :
                   b \in hitboxes'[a].overlaps <=> {a, b} \in Relation(SelfNext)]_vars

\* next() returned the Separate of a pair whose Collide it returned before,
\* and the pair overlaps no more
C35_Witness ==
    /\ panic = ""
    /\ last.op = "next"
    /\ IsSome(last.ret)
    /\ last.ret[1][1] = "Separate"
    /\ pairLast[{0, 1}] = <<"Collide", "Separate">>
    /\ Relation(Self) = {}

\* the calls of a run with hitbox 3, which has no group
GroupCalls ==
    Calls \cup {Call("add_hitbox", id, Zero, <<>>) : id \in {3} \ DOMAIN hitboxes}
          \cup {Call("remove_hitbox", id, Zero, <<>>) : id \in {3} \cap DOMAIN hitboxes}

GroupNext == \E call \in GroupCalls : Called(call)

GroupSpec == ReplayInit /\ [][GroupNext]_vars

\* two distinct tracked hitboxes that have a group each and can interact
Interacting(a, b) ==
    /\ a # b
    /\ {a, b} \subseteq DOMAIN hitboxes
    /\ IsSome(hitboxes[a].profile.group)
    /\ IsSome(hitboxes[b].profile.group)
    /\ can_interact(hitboxes[a].profile, hitboxes[b].profile)

\* the profiles a query for a square at x finds, asked with the profile of id
Queried(x, id) ==
    Let([found \in {query_overlaps(Self, NewHitbox(x, 0).value, ProfileOf(id))} |->
    {found[i] : i \in 1..Len(found)}])

\* C32: every queued pair event, every overlap entry and every event next()
\* returns is about two distinct tracked hitboxes that have a group each and
\* can interact; a hitbox without a group is in no returned event, no overlap
\* set, no list add_hitbox or remove_hitbox returns, no query_overlaps result
\* and no grid cell
C32_OnlyInteracting ==
    panic = "" =>
        /\ \A k \in DOMAIN events.events :
               Len(events.events[k].ids) = 2 =>
                   Interacting(events.events[k].ids[1], events.events[k].ids[2])
        /\ \A a \in DOMAIN hitboxes : \A b \in hitboxes[a].overlaps : Interacting(a, b)
        /\ (last.op = "next" /\ IsSome(last.ret)) =>
               Interacting(last.ret[1][2].id, last.ret[1][3].id)
        /\ last.op \in {"add_hitbox", "remove_hitbox"} =>
               \A i \in 1..Len(last.ret) :
                   /\ IsSome(last.ret[i].group)
                   /\ last.ret[i].id # last.id
                   /\ can_interact(last.ret[i], ProfileOf(last.id))
                   /\ IsSome(ProfileOf(last.id).group)
        /\ \A x \in {-1, 0, 1} : \A id \in {0, 3} :
               \A p \in Queried(x, id) : IsSome(p.group) /\ can_interact(p, ProfileOf(id))
        /\ \A k \in DOMAIN grid : \A id \in grid[k] :
               id \in DOMAIN hitboxes /\ IsSome(hitboxes[id].profile.group)

\* hitbox 3, without a group, lies over hitbox 0, which overlaps hitbox 1;
\* hitboxes 1 and 2, which do not interact, share a grid cell
C32_Witness ==
    /\ panic = ""
    /\ DOMAIN hitboxes = {0, 1, 2, 3}
    /\ 1 \in hitboxes[0].overlaps
    /\ overlaps(get_hitbox(Self, 3).value, get_hitbox(Self, 0).value)
    /\ \E k \in DOMAIN grid : {1, 2} \subseteq grid[k]

\* ------------------------------------------------- functions on their own --

\* the state in which a function is called on its own with the arguments u
Alone(u, m) ==
    /\ hitboxes = NewCollider.hitboxes
    /\ time = NewCollider.time
    /\ grid = NewCollider.grid
    /\ events = NewCollider.events
    /\ panic = NewCollider.panic
    /\ last = Call("new", -1, Zero, <<>>)
    /\ pairLast = [p \in Pairs |-> <<>>]
    /\ eventTime = Zero
    /\ defined = [id \in Ids |-> None]
    /\ order = <<0, 1, 2>>
    /\ replay = NoReplay
    /\ unit = u
    /\ mantissa = m

\* the variables of the Collider but panic, and mantissa
collider == <<hitboxes, time, grid, events, last, pairLast, eventTime, defined, order, replay,
              mantissa>>

\* the snapshots the solvers are called with: squares of side 2 or 3 that
\* move along x, grow or keep their size, and are valid for a duration that
\* is empty, short or endless
Snapshots ==
    {DurHitbox(PlacedShape(v2(I(x), Zero), Shape("Rect", v2(I(w), I(w)))),
               DurHbVel(v2(I(vx), Zero), v2(I(rs), I(rs)), d)) :
        x \in {-3, 0, 2}, w \in {2, 3}, vx \in {-1, 0, 2}, rs \in {0, 1},
        d \in {Zero, I(1), INFINITY}}

Mantissa == 3

SolverInit ==
    \E a \in Snapshots : \E b \in Snapshots : \E m \in {0, Mantissa} :
        Alone([a |-> a, b |-> b, op |-> "", ret |-> <<>>], m)

\* a.collide_time(&b) and b.collide_time(&a)
CollideTime ==
    /\ unit.op = ""
    /\ unit' = [unit EXCEPT !.op = "collide_time",
                            !.ret = IF CollideTimeOk(unit.a, unit.b)
                                    THEN <<collide_time(unit.a, unit.b),
                                           collide_time(unit.b, unit.a)>>
                                    ELSE <<>>]
    /\ panic' = IF CollideTimeOk(unit.a, unit.b) THEN "" ELSE "requires time < HIGH_TIME"
    /\ UNCHANGED collider

\* a.separate_time(&b, padding) and b.separate_time(&a, padding)
SeparateTime ==
    /\ unit.op = ""
    /\ unit' = [unit EXCEPT !.op = "separate_time",
                            !.ret = <<separate_time(unit.a, unit.b, padding),
                                      separate_time(unit.b, unit.a, padding)>>]
    /\ UNCHANGED <<collider, panic>>

SolverNext == CollideTime \/ SeparateTime

SolverSpec == SolverInit /\ [][SolverNext]_vars

\* a solver returned
Solved == unit.op # "" /\ panic = ""

\* the shorter of the two durations
Window == FMin(unit.a.vel.duration, unit.b.vel.duration)

\* +infinity, or a time from 0 up to the end of the window, the end excluded
InWindow(t) == t = INFINITY \/ (FGe(t, Zero) /\ FLt(t, Window))

Parting ==
    \E i \in 1..Len(CardValues) :
        /\ card_overlap(unit.a.value.pos, unit.a.value.shape.dims,
                        unit.b.value.pos, unit.b.value.shape.dims, CardValues[i]) = Zero
        /\ FLt(card_overlap(unit.a.vel.value, unit.a.vel.resize,
                            unit.b.vel.value, unit.b.vel.resize, CardValues[i]), Zero)

C38_Symmetric == Solved => unit.ret[1] = unit.ret[2]

\* -------------------------------------------------- next(), step by step --

\* a caller at a late time: the Collider is new, no call of next() is running
LoopInit == \E m \in {0, Mantissa} : Alone([op |-> "", done |-> <<>>], m)

\* set_time(8.0) and set_time(next_time()), between two calls of next()
LoopSetTime(t) == unit.op = "" /\ SetTime(t)

\* add_hitbox of a square that is still or moves at 4.0, between two calls
LoopAddHitbox(id, vx) == unit.op = "" /\ AddHitbox(id, 0, vx)

\* next() is called
CallNext ==
    /\ panic = ""
    /\ unit.op = ""
    /\ unit' = [op |-> "next", done |-> <<>>]
    /\ UNCHANGED <<collider, panic>>

\* one round of the loop of next(): `while let Some(event) =
\* self.events.next(..)`, process_event, and the return or the next round;
\* done lists the ids of the Reiterate events the call has processed
NextStep ==
    /\ panic = ""
    /\ unit.op = "next"
    /\ events.next_event_index < MaxEventIndex
    /\ \E n \in {events_next(events, time, hitboxes)} :
         IF n.panic # "" \/ ~IsSome(n.event)
         THEN /\ Becomes([Self EXCEPT !.events = n.em, !.hitboxes = n.map, !.panic = n.panic])
              /\ last' = Call("next", -1, Zero, None)
              /\ unit' = [unit EXCEPT !.op = ""]
         ELSE \E p \in {process_event([Self EXCEPT !.events = n.em, !.hitboxes = n.map],
                                      n.event[1])} :
                /\ Becomes(p.c)
                /\ last' = IF p.c.panic = "" /\ ~IsSome(p.ret) THEN last
                           ELSE Call("next", n.event[1].ids[1], time, p.ret)
                /\ unit' = IF p.c.panic = "" /\ ~IsSome(p.ret)
                           THEN [unit EXCEPT !.done = Append(@, n.event[1].ids[1])]
                           ELSE [unit EXCEPT !.op = ""]
    /\ UNCHANGED <<pairLast, eventTime, defined, order, replay, mantissa>>

LoopNext ==
    \/ \E t \in {I(8), next_time(Self)} : LoopSetTime(t)
    \/ \E id \in Ids : \E vx \in {0, 4} : LoopAddHitbox(id, vx)
    \/ CallNext
    \/ NextStep

LoopSpec == LoopInit /\ [][LoopNext]_vars

\* C33: a call of next() processes finitely many Reiterate events at the
\* time() it runs at, one per hitbox at most, because the solitaire event
\* that the processing of Reiterate(id) queues for the hitbox is strictly
\* later than time()
C33_Terminates ==
    (unit.op = "next" /\ panic = "") =>
        /\ \A i \in 1..Len(unit.done) : \A j \in 1..Len(unit.done) :
               unit.done[i] = unit.done[j] => i = j
        /\ \A i \in 1..Len(unit.done) :
               \A k \in SolitaireKeys(unit.done[i]) : FGt(k.time, time)

\* --------------------------------- the older Collider (core/collider/) --

\* The Collider of core/collider/mod.rs with the EventManager of
\* core/collider/event_manager.rs.  Its Hitbox carries a duration in place of
\* an end_time.  The hitboxes of these runs are still squares more than a
\* cell apart: the grid finds no cellmate for any of them, so that no pair
\* event is queued and every overlaps set stays empty, and the two loops at
\* the end of internal_update_hitbox do nothing.

\* a still square of side 2 at x with the given duration
OldHitbox(x, duration) ==
    [value |-> PlacedShape(v2(I(x), Zero), Shape("Rect", v2(I(2), I(2)))),
     vel |-> [value |-> VecZero, resize |-> VecZero],
     duration |-> duration]

\* HitboxInfo::new
OldHitboxInfo(hitbox, start_time) ==
    [profile |-> ProfileOf(0), hitbox |-> hitbox, start_time |-> start_time,
     pub_duration |-> hitbox.duration, event_keys |-> {}, overlaps |-> {}]

\* the assertions of Hitbox::advance(orig_time, new_time)
OldAdvanceOk(hb, orig_time, new_time) ==
    /\ FLe(orig_time, new_time)
    /\ FSub(new_time, orig_time) # Zero => FLe(new_time, FAdd(orig_time, hb.duration))

\* Hitbox::advance(orig_time, new_time)
old_advance(hb, orig_time, new_time) ==
    IF FSub(new_time, orig_time) = Zero THEN hb
    ELSE [hb EXCEPT !.value = advanced_shape(hb, FSub(new_time, orig_time)),
                    !.duration = FSub(FAdd(orig_time, hb.duration), new_time)]

\* HitboxInfo::pub_hitbox_at_time(time)
old_pub_hitbox_at_time(info, t) ==
    old_advance([info.hitbox EXCEPT !.duration = info.pub_duration], info.start_time, t)

\* EventManager::new_event_key(time): no key for an infinite time
old_new_event_key(em, t) ==
    IF t = INFINITY THEN None ELSE Some(EventKey(t, <<0, em.next_event_index>>))

\* EventManager::add_solitaire_event(time, event, key_set): [em, key_set]
old_add_solitaire_event(em, t, event, key_set) ==
    Let([k \in {old_new_event_key(em, t)} |->
    IF ~IsSome(k) THEN [em |-> em, key_set |-> key_set]
    ELSE [em |-> [events |-> MapPut(em.events, k[1], event),
                  next_event_index |-> em.next_event_index + 1],
          key_set |-> key_set \cup {k[1]}]])

\* Collider::solitaire_event_check(id, hitbox_info, has_group): [info, events]
old_solitaire_event_check(c, id, hitbox_info, has_group) ==
    Let([r0 \in {<<cell_period(hitbox_info.hitbox, has_group), Reiterate(id)>>} |->
    Let([r1 \in {IF FLt(hitbox_info.hitbox.duration, r0[1])
                 THEN <<hitbox_info.hitbox.duration, PanicDurationPassed(id)>> ELSE r0} |->
    Let([delay \in {time_until_too_small(hitbox_info.hitbox, padding)} |->
    Let([result \in {IF FLt(delay, r1[1]) THEN <<delay, PanicSmallHitbox(id)>> ELSE r1} |->
    Let([r \in {old_add_solitaire_event(c.events, FAdd(c.time, result[1]), result[2],
                                        hitbox_info.event_keys)} |->
    [info |-> [hitbox_info EXCEPT !.pub_duration = hitbox_info.hitbox.duration,
                                  !.hitbox.duration = result[1],
                                  !.event_keys = r.key_set],
     events |-> r.em]])])])])])

\* Collider::internal_update_hitbox(id, hitbox, None, phase), phase one of
\* "Add", "Remove", "Update"
old_internal_update_hitbox(c, id, hitbox, phase) ==
    IF id \notin DOMAIN c.hitboxes THEN Panic(c, "hitbox id not found")
    ELSE IF ~IsSome(hitbox) /\ ~OldAdvanceOk(c.hitboxes[id].hitbox, c.hitboxes[id].start_time, c.time)
    THEN Panic(c, "tried to advance Hitbox beyond its duration")
    ELSE
      Let([hb \in {IF IsSome(hitbox) THEN hitbox[1]
                   ELSE old_pub_hitbox_at_time(c.hitboxes[id], c.time)} |->
      IF IsNaN(hb.duration) \/ ~FGe(hb.duration, Zero) \/ ~TooSmallOk(hb, padding)
      THEN Panic(c, "Hitbox::validate")
      ELSE
        Let([cl \in {clear_related_events(c.events, id, c.hitboxes[id].event_keys,
                                 MapRemove(c.hitboxes, {id}))} |->
        IF cl.panic # ""
        THEN [c EXCEPT !.hitboxes = cl.map, !.events = cl.em, !.panic = cl.panic]
        ELSE
          Let([new_group \in {IF phase = "Remove" THEN None ELSE c.hitboxes[id].profile.group} |->
          Let([s \in {old_solitaire_event_check(
                        [c EXCEPT !.events = cl.em], id,
                        [c.hitboxes[id] EXCEPT !.hitbox = hb, !.event_keys = cl.key_set,
                                               !.overlaps = {}],
                        IsSome(new_group))} |->
          [c EXCEPT !.events = s.events,
                    !.hitboxes = MapPut(cl.map, id, [s.info EXCEPT !.start_time = c.time])]])])])])

\* Collider::add_hitbox(id, hitbox)
old_add_hitbox(c, id, hitbox) ==
    IF id \in DOMAIN c.hitboxes THEN Panic(c, "hitbox id already in use")
    ELSE old_internal_update_hitbox(
           [c EXCEPT !.hitboxes = MapPut(c.hitboxes, id, OldHitboxInfo(hitbox, c.time))],
           id, None, "Add")

\* Collider::remove_hitbox(id)
old_remove_hitbox(c, id) ==
    Let([u \in {old_internal_update_hitbox(c, id, None, "Remove")} |->
    IF u.panic # "" THEN u ELSE [u EXCEPT !.hitboxes = MapRemove(u.hitboxes, {id})]])

\* Collider::advance(time)
old_collider_advance(c, t) ==
    IF ~FGe(t, Zero) THEN Panic(c, "time must be non-negative")
    ELSE IF ~FLe(FAdd(c.time, t), peek_time(c.events))
    THEN Panic(c, "time must not exceed time_until_next()")
    ELSE IF ~FLt(FAdd(c.time, t), HighTime) THEN Panic(c, "time must not exceed HIGH_TIME")
    ELSE [c EXCEPT !.time = FAdd(c.time, t)]

\* Collider::next(): the events of these runs are solitaire events
RECURSIVE old_next(_)
old_next(c) ==
    Let([n \in {events_next(c.events, c.time, c.hitboxes)} |->
    IF n.panic # "" \/ ~IsSome(n.event)
    THEN [c EXCEPT !.events = n.em, !.hitboxes = n.map, !.panic = n.panic]
    ELSE IF n.event[1].kind = "Reiterate"
    THEN old_next(old_internal_update_hitbox([c EXCEPT !.events = n.em, !.hitboxes = n.map],
                                             n.event[1].ids[1], None, "Update"))
    ELSE IF n.event[1].kind = "PanicDurationPassed"
    THEN Panic([c EXCEPT !.events = n.em, !.hitboxes = n.map],
               "hitbox was not updated before duration passed")
    ELSE Panic([c EXCEPT !.events = n.em, !.hitboxes = n.map], "hitbox became too small")])

\* the durations the caller gives a hitbox
Durations == {I(2), INFINITY}

OldInit == Alone(<<>>, 0)

OldAddHitbox(id, d) ==
    /\ panic = ""
    /\ events.next_event_index < MaxEventIndex
    /\ Becomes(old_add_hitbox(Self, id, OldHitbox(8 * id, d)))
    /\ last' = Call("add_hitbox", id, d, <<>>)
    /\ UNCHANGED <<pairLast, eventTime, defined, order, replay, unit, mantissa>>

OldUpdateHitbox(id, d) ==
    /\ panic = ""
    /\ events.next_event_index < MaxEventIndex
    /\ id \in DOMAIN hitboxes
    /\ Becomes(old_internal_update_hitbox(Self, id, Some(OldHitbox(8 * id, d)), "Update"))
    /\ last' = Call("update_hitbox", id, d, <<>>)
    /\ UNCHANGED <<pairLast, eventTime, defined, order, replay, unit, mantissa>>

OldRemoveHitbox(id) ==
    /\ panic = ""
    /\ events.next_event_index < MaxEventIndex
    /\ Becomes(old_remove_hitbox(Self, id))
    /\ last' = Call("remove_hitbox", id, Zero, <<>>)
    /\ UNCHANGED <<pairLast, eventTime, defined, order, replay, unit, mantissa>>

OldAdvance(t) ==
    /\ panic = ""
    /\ FLe(FAdd(time, t), I(MaxTime))
    /\ Becomes(old_collider_advance(Self, t))
    /\ last' = Call("advance", -1, t, <<>>)
    /\ UNCHANGED <<pairLast, eventTime, defined, order, replay, unit, mantissa>>

OldNextEvent ==
    /\ panic = ""
    /\ Becomes(old_next(Self))
    /\ last' = Call("next", -1, Zero, <<>>)
    /\ UNCHANGED <<pairLast, eventTime, defined, order, replay, unit, mantissa>>

OldNext ==
    \/ \E id \in Ids : \E d \in Durations : OldAddHitbox(id, d)
    \/ \E id \in Ids : \E d \in Durations : OldUpdateHitbox(id, d)
    \/ \E id \in Ids : OldRemoveHitbox(id)
    \/ \E t \in {I(1), FSub(peek_time(events), time)} : OldAdvance(t)
    \/ OldNextEvent

OldSpec == OldInit /\ [][OldNext]_vars

\* C36: in the older Collider no queued event names a hitbox that is not
\* tracked: remove_hitbox(id) leaves no event of id in the queue, the
\* solitaire event of its own internal update included, and
\* EventManager::next never looks up a hitbox that is gone
C36_NoEventOfRemoved ==
    /\ panic # "EventManager::next: illegal state"
    /\ panic = "" =>
           \A k \in DOMAIN events.events :
               \A i \in 1..Len(events.events[k].ids) :
                   events.events[k].ids[i] \in DOMAIN hitboxes

\* ------------------------------------------------------------ IndexRect --

\* the coordinates of the rectangles run from -1 up to MaxIndex
MaxIndex == 2

\* IndexRect::new is about to be called with a start and an end
RectInit ==
    \E sx \in -1..1 : \E sy \in -1..1 : \E ex \in -1..MaxIndex : \E ey \in -1..MaxIndex :
        Alone([op |-> "", rect |-> IndexRect(<<sx, sy>>, <<ex, ey>>), val |-> None,
               out |-> <<>>], 0)

\* IndexRect::new(start, end), then iter()
RectNew ==
    /\ unit.op = ""
    /\ panic' = IF unit.rect.start[1] < unit.rect.end[1] /\ unit.rect.start[2] < unit.rect.end[2]
                THEN "" ELSE "IndexRect contains no elements"
    /\ unit' = [unit EXCEPT !.op = "iter"]
    /\ UNCHANGED collider

\* one round of `for (x, y) in rect.iter()`: Iter::next, which ends the loop
\* with None; out lists the cells it yielded
IterNext ==
    /\ unit.op = "iter"
    /\ panic = ""
    /\ \E v \in {iter_next(unit.rect, unit.val)} :
         unit' = IF IsSome(v) THEN [unit EXCEPT !.val = v, !.out = Append(@, v[1])]
                 ELSE [unit EXCEPT !.val = v, !.op = "done"]
    /\ UNCHANGED <<collider, panic>>

RectNext == RectNew \/ IterNext

RectSpec == RectInit /\ [][RectNext]_vars

\* the cells (x, y) with start.x <= x < end.x and start.y <= y < end.y
Inside(rect) ==
    {c \in (-2..(MaxIndex + 1)) \X (-2..(MaxIndex + 1)) :
        /\ rect.start[1] <= c[1] /\ c[1] < rect.end[1]
        /\ rect.start[2] <= c[2] /\ c[2] < rect.end[2]}

\* the cells the loop has been given
Yielded == {unit.out[i] : i \in 1..Len(unit.out)}

\* C39: IndexRect::new panics unless start.x < end.x and start.y < end.y; for
\* a valid rectangle iter() yields no cell twice and no cell outside the
\* rectangle, ends after (end.x - start.x) * (end.y - start.y) cells, which
\* are all the cells of the rectangle, and contains(c) is true for the cells
\* iter() yields and for no other
C39_IterYieldsCells ==
    /\ unit.op # "" =>
           (panic = "" <=> (unit.rect.start[1] < unit.rect.end[1]
                            /\ unit.rect.start[2] < unit.rect.end[2]))
    /\ (unit.op # "" /\ panic = "") =>
           /\ Cardinality(Yielded) = Len(unit.out)
           /\ Yielded \subseteq Inside(unit.rect)
           /\ Inside(unit.rect) = RectCells(unit.rect)
           /\ \A c \in (-2..(MaxIndex + 1)) \X (-2..(MaxIndex + 1)) :
                  rect_contains(unit.rect, c) <=> c \in Inside(unit.rect)
    /\ unit.op = "done" =>
           /\ Yielded = Inside(unit.rect)
           /\ Len(unit.out) = (unit.rect.end[1] - unit.rect.start[1])
                                  * (unit.rect.end[2] - unit.rect.start[2])

\* the loop over a rectangle of more than one column and more than one row
\* has ended
C39_Witness ==
    /\ unit.op = "done"
    /\ unit.rect.end[1] - unit.rect.start[1] > 1
    /\ unit.rect.end[2] - unit.rect.start[2] > 1

\* ------------------------------------------------------ TightSet::remove --

\* the number of frames of remove the stack has room for
MaxStack == 4

\* the values a set holds
Values == 0..3

\* remove(value) is about to be called on a TightSet; depth counts the frames
\* of remove on the stack and ret is what the outermost call returned
SetInit ==
    \E set \in SUBSET Values : \E value \in Values :
        Alone([op |-> "", set |-> set, value |-> value, depth |-> 0, ret |-> None], 0)

\* entering TightSet::remove, from the caller or from its own first statement
\* `let success = self.remove(value);`: self is a TightSet, so the call is the
\* method itself, not HashSet::remove, and the statements after it are never
\* reached
TightSetRemove ==
    /\ unit.op \in {"", "remove"}
    /\ panic = ""
    /\ unit.depth < MaxStack
    /\ unit' = [unit EXCEPT !.op = "remove", !.depth = @ + 1]
    /\ UNCHANGED <<collider, panic>>

\* the next frame does not fit: the process is aborted
StackOverflow ==
    /\ unit.op = "remove"
    /\ panic = ""
    /\ unit.depth = MaxStack
    /\ panic' = "stack overflow"
    /\ UNCHANGED <<collider, unit>>

SetNext == TightSetRemove \/ StackOverflow

SetSpec == SetInit /\ [][SetNext]_vars

\* C40: a call of TightSet::remove(value) does not abort, and once it has
\* returned, it has returned true iff value was a member and the set is
\* without value
C40_RemoveReturns ==
    /\ panic = ""
    /\ IsSome(unit.ret) =>
           \E before \in SUBSET Values :
               /\ unit.ret[1] = (unit.value \in before)
               /\ unit.set = before \ {unit.value}

====
